---- MODULE Spec2Model ----
(***************************************************************************)
(* Execution core of the HTTP job server: the job manager (submit, cancel, *)
(* status, result), the three-band priority queue, the executor workers,   *)
(* the persistence log and the best-effort runner.  Every step that the    *)
(* code performs under one lock acquisition is one action, so that the     *)
(* interleavings of the threads are those the locks allow.                 *)
(***************************************************************************)
EXTENDS Integers, Sequences, FiniteSets, TLC

\* ---------------------------------------------------------------- bounds
MaxJobs == 3        \* number of Job objects constructed in a run of the queue
LifeJobs == 2       \* number of Job objects constructed in the other runs
QueueMax == 3       \* JOB_QUEUE_MAX of a run
SmallQueue == 1     \* JOB_QUEUE_MAX of the runs that fill the queue
PoolSize == 1       \* WORKERS_<ROUTE>: workers of the per-endpoint pool
MaxMs == 1001       \* retry_after_ms: distance from 0 and from u64::MAX

\* ------------------------------------------------------------ vocabulary
JobIds == 1..MaxJobs
Pools == {"cpu", "io"}
Bands == {"High", "Normal", "Low"}
Submitters == {"s1", "s2"}
Requests == {"r1", "r2"}
Workers == {"cpu-0", "cpu-1", "io-0"}
\* worker_pool.rs ThreadPool::new: for idx in 0..size
PoolWorkers == 0..(PoolSize - 1)
WorkerPool(w) == IF w = "io-0" THEN "io" ELSE "cpu"
\* the threads whose mutex use is followed: two callers of the JobManager and
\* one worker of the pool they submit to
LockThreads == {"s1", "s2", "cpu-0"}

None == <<>>
Some(v) == <<v>>

CpuTasks == {"isprime", "factor", "pi", "matrixmul", "mandelbrot",
             "fibonacci", "reverse", "toupper", "random"}
IoTasks == {"sortfile", "wordcount", "grep", "compress",
            "hashfile", "createfile", "deletefile", "timestamp"}
ExecTasks == {"isprime", "factor", "pi", "matrixmul", "mandelbrot",
              "sortfile", "wordcount", "grep", "compress", "hashfile"}
is_cpu_bound(t) == t \in CpuTasks
is_io_bound(t) == t \in IoTasks
\* manager.rs: queue = if is_cpu { cpu_pool.queue } else { io_pool.queue }
TargetPool(t) == IF is_cpu_bound(t) THEN "cpu" ELSE "io"

\* JobStatus::Error(msg), and the messages the executor gives it
Error(msg) == "Error:" \o msg
\* execute_job line 162: format!("Unknown task '{}'", job.task)
UnknownTask(t) == "Unknown task '" \o t \o "'"
\* the names a caller submits: those of the tables and one of neither
TaskNames == CpuTasks \cup IoTasks \cup {"nosuch"}
TaskMessages == {"failed", "panic"} \cup {UnknownTask(t) : t \in TaskNames}
\* format!("{:?}", JobStatus::Error(msg)): Error("msg")
ErrorDebug(msg) == "Error(\"" \o msg \o "\")"
\* the messages of a process and of a process restarted on its log
Messages == TaskMessages \cup {ErrorDebug(m) : m \in TaskMessages}
ErrorStatuses == {Error(m) : m \in Messages}
Terminal == {"Done", "Canceled", "Timeout"} \cup ErrorStatuses
NoJob == "NoJob"

VARIABLES
    jobs,           \* JobManager.jobs: the ids in the registry map
    nextId,         \* number of Job objects constructed so far
    task,           \* Job.task
    priority,       \* Job.priority
    status,         \* Job.status
    result,         \* Job.result (Option<String>)
    started_at,     \* Job.started_at is Some
    finished_at,    \* Job.finished_at is Some
    queue,          \* JobQueue of each pool: band -> VecDeque of ids
    log,            \* the persistence file: one record per line
    active_workers, \* WorkerMetrics.active_workers of each pool
    wpc, wjob, wout, \* executor workers: position, job held, task outcome
    wexp,           \* what job.is_expired() is when the task has returned
    spc, sreq, sjob, sres, \* submit calls: position, arguments, job, return value
    enqOrder,       \* the ids pushed on a queue, in the order of the pushes
    scanStart,      \* per worker: pushes done when its scan of the bands began
    cancelOk,       \* ids for which cancel returned true
    crefused,       \* the id of the last cancel call that returned false, or 0
    executed,       \* ids whose task has been run, with the number of runs
    qjob, qmissing, \* result endpoint: id seen Done, "no output" answer given
    bpc,            \* best_effort::execute calls: position of the foreground
    breq,           \* the call's task and priority
    brecv,          \* what rx.recv_timeout returned
    breg,           \* what register_inflight returned
    bjob,           \* the job it registered
    bout,           \* the call's return value
    tpc,            \* position of the spawned computation thread
    tres,           \* the closure's result
    chan,           \* the sync_channel(1) buffer
    rx, tx,         \* the receiver / the sender is alive
    job_id_slot,    \* the shared Mutex<Option<String>>
    inflight,       \* registered in-flight jobs that are not terminal yet
    lpc,            \* load_persistent_jobs: position ("none" when it does not run)
    restored,       \* the Vec<SavedJob> of load_job_states not yet inserted
    bootlog,        \* the log as the process found it at startup
    tmpfile,        \* the content of <path>.tmp
    fwriter,        \* the save_job_state call that holds FILE_LOCK
    crashed,        \* the process has died
    pchan,          \* ThreadPool: the Run messages in the mpsc channel
    psent,          \* the requests whose closure was handed to the pool
    ppc,            \* ThreadPool workers: position in the worker loop
    pjob,           \* the request whose closure the worker took
    pactive,        \* ThreadPoolInner.active_workers
    pbusy,          \* WorkerInfo.busy of each worker
    pstrong,        \* who holds a strong reference to the Arc<ThreadPoolInner>
    held,           \* per thread: the mutexes it holds, in the order it locked them
    todo,           \* per thread: the lock operations left in the call it runs
    retry_after_ms, \* the hint carried by a QueueFull error (u64)
    response,       \* what the handler made of it: "none", "503", "panic"
    retry_after_secs \* the Retry-After header of the 503 (u64)

jobVars == <<jobs, nextId, task, priority, status, result, started_at, finished_at>>
workerVars == <<wpc, wjob, wout, wexp, active_workers, scanStart>>
submitVars == <<spc, sreq, sjob, sres>>
queueHist == <<enqOrder>>
queryVars == <<qjob, qmissing>>
beVars == <<bpc, breq, brecv, breg, bjob, bout, tpc, tres, chan, rx, tx, job_id_slot, inflight>>
bootVars == <<lpc, restored, bootlog>>
diskVars == <<tmpfile, fwriter, crashed>>
poolVars == <<pchan, psent, ppc, pjob, pactive, pbusy, pstrong>>
retryVars == <<retry_after_ms, response, retry_after_secs>>
lockVars == <<held, todo>>
vars == <<jobVars, queue, log, workerVars, submitVars, queueHist, cancelOk, crefused, executed, queryVars, beVars,
          bootVars, diskVars, poolVars, retryVars, lockVars>>

\* ----------------------------------------------------------------- queue
EmptyQueue == [b \in Bands |-> <<>>]
\* queue.rs len_by_priority / total_len, as one snapshot
total_len(p) == Len(queue[p]["High"]) + Len(queue[p]["Normal"]) + Len(queue[p]["Low"])
InBand(p, b) == {queue[p][b][i] : i \in 1..Len(queue[p][b])}
InQueue(p) == InBand(p, "High") \cup InBand(p, "Normal") \cup InBand(p, "Low")

\* queue.rs enqueue lines 53-64: push_back on the band of job.priority
PushBack(q, b, id) == [q EXCEPT ![b] = Append(@, id)]
\* faulty variant: the job is handed out and stays in the band
front(q) == <<Head(q), q>>
\* faulty variant: pop_back instead of pop_front
pop_back(q) == <<q[Len(q)], SubSeq(q, 1, Len(q) - 1)>>
\* queue.rs try_pop lines 87-91: q.pop_front() of a non-empty band, as
\* <<the job popped, the band left>>
try_pop(q) == <<Head(q), Tail(q)>>
\* faulty variant: the normal band is tried before the high band
BandAtNormalFirst(at) ==
    CASE at = "deq_high" -> "Normal"
      [] at = "deq_normal" -> "High"
      [] OTHER -> "Low"
\* queue.rs dequeue lines 69-77: the band each try_pop of a scan locks
BandAt(at) ==
    CASE at = "deq_high" -> "High"
      [] at = "deq_normal" -> "Normal"
      [] OTHER -> "Low"

\* workers blocked in cvar.wait on the normal band's condition variable
Waiting(p) == {w \in Workers : WorkerPool(w) = p /\ wpc[w] = "waiting"}

\* ----------------------------------------------------------- persistence
\* persistence.rs line 26: format!("{:?}", status)
StatusDebug(st) ==
    IF st \in ErrorStatuses
    THEN ErrorDebug(CHOOSE m \in Messages : st = Error(m))
    ELSE st
\* persistence.rs save_job_state lines 22-35: snapshot of the job (priority
\* and status in Debug format, result: unwrap_or_default)
Snapshot(id) == [id |-> id, task |-> task[id], priority |-> priority[id],
                 status |-> StatusDebug(status[id]),
                 result |-> IF result[id] = None THEN "" ELSE result[id][1]]
WithoutId(l, id) == SelectSeq(l, LAMBDA r : r.id # id)
append_job_state(l, id) == Append(l, Snapshot(id))
\* drop any line of this id, append the snapshot, replace the file
save_job_state(l, id) == Append(WithoutId(l, id), Snapshot(id))
\* remove_job_state: drop the lines of this id
remove_job_state(l, id) == WithoutId(l, id)

\* no save_job_state call is running
NoWriter == [who |-> "none", at |-> "none", lines |-> <<>>, old |-> <<>>]

\* ------------------------------------------------------------------ Init
\* ------------------------------------------------------- u64 arithmetic
\* a u64 is written in base 1000, least significant digit first: seven
\* digits hold every value below 10^21
Base == 1000
\* u64::MAX = 18,446,744,073,709,551,615 and 2^64
U64_MAX == <<615, 551, 709, 73, 744, 446, 18>>
TwoPow64 == <<616, 551, 709, 73, 744, 446, 18>>
Limbs == Len(U64_MAX)
Zero == [i \in 1..Limbs |-> 0]
FromNat(n) == [i \in 1..Limbs |-> IF i = 1 THEN n % Base ELSE IF i = 2 THEN n \div Base ELSE 0]

RECURSIVE add(_, _, _)
add(x, i, c) ==
    IF i > Limbs THEN x
    ELSE add([x EXCEPT ![i] = (x[i] + c) % Base], i + 1, (x[i] + c) \div Base)
\* x + k in the integers, for k < Base
plus(x, k) == add(x, 1, k)

RECURSIVE sub(_, _, _, _)
sub(x, y, i, b) ==
    IF i > Limbs THEN x
    ELSE sub([x EXCEPT ![i] = (x[i] - y[i] - b + Base) % Base], y, i + 1,
             IF x[i] - y[i] - b < 0 THEN 1 ELSE 0)
\* x - y in the integers, for x >= y
minus(x, y) == sub(x, y, 1, 0)

RECURSIVE gt(_, _, _)
gt(x, y, i) ==
    IF i = 0 THEN FALSE
    ELSE IF x[i] # y[i] THEN x[i] > y[i]
    ELSE gt(x, y, i - 1)
greater(x, y) == gt(x, y, Limbs)

\* x + k overflows the 64 bits
overflows(x, k) == greater(plus(x, k), U64_MAX)
\* x + k modulo 2^64
wrapping_add(x, k) == IF overflows(x, k) THEN minus(plus(x, k), TwoPow64) ELSE plus(x, k)
\* x / 1000: the lowest digit is dropped
div_1000(x) == [i \in 1..Limbs |-> IF i < Limbs THEN x[i + 1] ELSE 0]
\* x.max(1)
max_1(x) == IF x = Zero THEN FromNat(1) ELSE x

\* the hint of a refusal is about one second
Hint == FromNat(1000)

InitJobs ==
    /\ jobs = {}
    /\ nextId = 0
    /\ task = [j \in JobIds |-> NoJob]
    /\ priority = [j \in JobIds |-> NoJob]
    /\ status = [j \in JobIds |-> NoJob]
    /\ result = [j \in JobIds |-> None]
    /\ started_at = [j \in JobIds |-> FALSE]
    /\ finished_at = [j \in JobIds |-> FALSE]
    /\ queue = [p \in Pools |-> EmptyQueue]
    /\ log = <<>>
    /\ active_workers = [p \in Pools |-> 0]
    /\ wpc = [w \in Workers |-> "deq_high"]
    /\ wjob = [w \in Workers |-> 0]
    /\ wout = [w \in Workers |-> "none"]
    /\ wexp = [w \in Workers |-> FALSE]
    /\ spc = [s \in Submitters |-> "idle"]
    /\ sreq = [s \in Submitters |-> <<>>]
    /\ sjob = [s \in Submitters |-> 0]
    /\ enqOrder = <<>>
    /\ scanStart = [w \in Workers |-> 0]
    /\ sres = [s \in Submitters |-> "none"]
    /\ cancelOk = {}
    /\ crefused = 0
    /\ executed = [j \in JobIds |-> 0]
    /\ qjob = 0
    /\ qmissing = FALSE
    /\ bpc = [r \in Requests |-> "idle"]
    /\ breq = [r \in Requests |-> <<>>]
    /\ brecv = [r \in Requests |-> "none"]
    /\ breg = [r \in Requests |-> "none"]
    /\ bjob = [r \in Requests |-> 0]
    /\ bout = [r \in Requests |-> "none"]
    /\ tpc = [r \in Requests |-> "none"]
    /\ tres = [r \in Requests |-> "none"]
    /\ chan = [r \in Requests |-> None]
    /\ rx = [r \in Requests |-> FALSE]
    /\ tx = [r \in Requests |-> FALSE]
    /\ job_id_slot = [r \in Requests |-> None]
    /\ inflight = {}
    /\ lpc = "none"
    /\ restored = <<>>
    /\ bootlog = <<>>
    /\ tmpfile = <<>>
    /\ fwriter = NoWriter
    /\ crashed = FALSE
    /\ held = [t \in LockThreads |-> <<>>]
    /\ todo = [t \in LockThreads |-> <<>>]
    /\ pchan = <<>>
    /\ psent = {}
    /\ ppc = [pw \in PoolWorkers |-> "recv"]
    /\ pjob = [pw \in PoolWorkers |-> "none"]
    /\ pactive = 0
    /\ pbusy = [pw \in PoolWorkers |-> FALSE]
    /\ pstrong = [owner |-> TRUE, registry |-> TRUE, workers |-> PoolWorkers]
    /\ response = "none"
    /\ retry_after_secs = Zero

Init ==
    /\ InitJobs
    /\ retry_after_ms = Hint

\* ---------------------------------------------------------------- submit
\* calls that have not constructed their Job yet
Pending == {s \in Submitters : spc[s] = "insert"}
BePending == {r \in Requests : bpc[r] \in {"recv", "register"}}

\* faulty variant: > instead of >=
SubmitFullStrict(len, run) == len > run.queue_max
\* manager.rs submit lines 66-82: classify the task, read queue.total_len(),
\* return QueueFull when it has reached queue_max
SubmitFull(len, run) == len >= run.queue_max

SubmitCheck(s, run) ==
    /\ spc[s] = "idle"
    /\ \E t \in run.tasks, b \in run.bands :
         IF SubmitFull(total_len(TargetPool(t)), run)
         THEN /\ sres' = [sres EXCEPT ![s] = "QueueFull"]
              /\ sjob' = [sjob EXCEPT ![s] = 0]
              /\ UNCHANGED <<spc, sreq>>
         ELSE /\ nextId + Cardinality(Pending) + Cardinality(BePending) < run.budget
              /\ sres' = [sres EXCEPT ![s] = "none"]
              /\ sjob' = [sjob EXCEPT ![s] = 0]
              /\ sreq' = [sreq EXCEPT ![s] = <<t, b>>]
              /\ spc' = [spc EXCEPT ![s] = "insert"]
    /\ UNCHANGED <<jobVars, queue, log, workerVars, cancelOk, crefused, bootVars, diskVars, poolVars, retryVars, lockVars, executed, queryVars, beVars, queueHist>>

\* lines 96-107: Job::with_priority (status Queued, no result, no
\* timestamps), then self.jobs.lock().insert(id, job)
SubmitInsert(s) ==
    /\ spc[s] = "insert"
    /\ nextId' = nextId + 1
    /\ LET id == nextId + 1 IN
        /\ task' = [task EXCEPT ![id] = sreq[s][1]]
        /\ priority' = [priority EXCEPT ![id] = sreq[s][2]]
        /\ status' = [status EXCEPT ![id] = "Queued"]
        /\ jobs' = jobs \cup {id}
        /\ sjob' = [sjob EXCEPT ![s] = id]
    /\ sreq' = [sreq EXCEPT ![s] = <<>>]
    /\ spc' = [spc EXCEPT ![s] = "save"]
    /\ UNCHANGED <<result, started_at, finished_at, sres>>
    /\ UNCHANGED <<queue, log, workerVars, cancelOk, crefused, bootVars, diskVars, poolVars, retryVars, lockVars, executed, queryVars, beVars, queueHist>>

\* line 109: save_job_state(&job, &self.persist_path)
SubmitSave(s) ==
    /\ spc[s] = "save"
    /\ log' = save_job_state(log, sjob[s])
    /\ spc' = [spc EXCEPT ![s] = "enqueue"]
    /\ UNCHANGED <<sreq, sjob, sres>>
    /\ UNCHANGED <<jobVars, queue, workerVars, cancelOk, crefused, bootVars, diskVars, poolVars, retryVars, lockVars, executed, queryVars, beVars, queueHist>>

\* queue.try_enqueue(job): fails when the total length has reached the
\* maximum; otherwise pushes on the band of job.priority and notifies one
\* waiter
\* faulty variant: the push is not preceded by a check of its own
try_enqueue_unchecked(p, run) == FALSE
try_enqueue_full(p, run) == total_len(p) >= run.queue_max

try_enqueue_ok(p, id, run) ==
    /\ ~try_enqueue_full(p, run)
    /\ queue' = [queue EXCEPT ![p] = PushBack(@, priority[id], id)]
    /\ enqOrder' = Append(enqOrder, id)
    /\ \/ /\ Waiting(p) = {}
          /\ UNCHANGED wpc
       \/ \E w \in Waiting(p) : wpc' = [wpc EXCEPT ![w] = "deq_high"]

\* line 111, Ok branch: return Ok(id)
SubmitEnqueue(s, run) ==
    /\ spc[s] = "enqueue"
    /\ try_enqueue_ok(TargetPool(task[sjob[s]]), sjob[s], run)
    /\ spc' = [spc EXCEPT ![s] = "idle"]
    /\ sres' = [sres EXCEPT ![s] = "Ok"]
    /\ UNCHANGED <<sreq, sjob>>
    /\ UNCHANGED <<jobVars, log, wjob, wout, wexp, active_workers, scanStart, cancelOk, crefused, bootVars, diskVars, poolVars, retryVars, lockVars, executed, queryVars, beVars>>

\* faulty variant: the whole registry is emptied
RegistryClear(id) == {}
\* faulty variant: the registry entry is left behind
RegistryKeep(id) == jobs
\* lines 111-116, Err branch: self.jobs.lock().unwrap().remove(&id)
RegistryRemove(id) == jobs \ {id}

SubmitEnqueueFull(s, run) ==
    /\ spc[s] = "enqueue"
    /\ try_enqueue_full(TargetPool(task[sjob[s]]), run)
    /\ jobs' = RegistryRemove(sjob[s])
    /\ spc' = [spc EXCEPT ![s] = "rollback"]
    /\ UNCHANGED <<nextId, task, priority, status, result, started_at, finished_at>>
    /\ UNCHANGED <<sreq, sjob, sres>>
    /\ UNCHANGED <<queue, log, workerVars, cancelOk, crefused, bootVars, diskVars, poolVars, retryVars, lockVars, executed, queryVars, beVars, queueHist>>

\* lines 117-118: remove_job_state(&id, ..); return Err(QueueFull)
SubmitRollback(s) ==
    /\ spc[s] = "rollback"
    /\ log' = remove_job_state(log, sjob[s])
    /\ spc' = [spc EXCEPT ![s] = "idle"]
    /\ sres' = [sres EXCEPT ![s] = "QueueFull"]
    /\ UNCHANGED <<sreq, sjob>>
    /\ UNCHANGED <<jobVars, queue, workerVars, cancelOk, crefused, bootVars, diskVars, poolVars, retryVars, lockVars, executed, queryVars, beVars, queueHist>>

\* the steps of a call whose enqueue cannot fail (no other thread pushes)
SubmitAccepted(s, run) ==
    \/ SubmitCheck(s, run)
    \/ SubmitInsert(s)
    \/ SubmitSave(s)
    \/ SubmitEnqueue(s, run)

Submit(s, run) ==
    \/ SubmitCheck(s, run)
    \/ SubmitInsert(s)
    \/ SubmitSave(s)
    \/ SubmitEnqueue(s, run)
    \/ SubmitEnqueueFull(s, run)
    \/ SubmitRollback(s)

\* ---------------------------------------------------------------- cancel
\* faulty variant: a Running job is canceled too
CancelableOrRunning(st) == st \in {"Queued", "Running"}
\* manager.rs cancel line 196: *s == JobStatus::Queued
Cancelable(st) == st = "Queued"

\* manager.rs cancel: registry lock, then status lock; Queued -> Canceled,
\* return true
cancel(id) ==
    /\ id \in jobs
    /\ Cancelable(status[id])
    /\ status' = [status EXCEPT ![id] = "Canceled"]
    /\ cancelOk' = cancelOk \cup {id}
    /\ UNCHANGED <<jobs, nextId, task, priority, result, started_at, finished_at>>
    /\ UNCHANGED <<queue, log, workerVars, submitVars, crefused, bootVars, diskVars, poolVars, retryVars, lockVars, executed, queryVars, beVars, queueHist>>

\* manager.rs cancel lines 199-204: any other status, or no such job:
\* return false
cancel_refused(id) ==
    /\ ~(id \in jobs /\ Cancelable(status[id]))
    /\ crefused' = id
    /\ UNCHANGED <<bootVars, diskVars, poolVars, retryVars, lockVars>>
    /\ UNCHANGED <<jobVars, queue, log, workerVars, submitVars, cancelOk, executed, queryVars, beVars, queueHist>>

\* ---------------------------------------------------------- worker loop
\* queue.rs dequeue lines 69-77 with try_pop: one band is locked and
\* popped at a time
TryPop(w, at, next) ==
    /\ wpc[w] = at
    /\ LET p == WorkerPool(w)
           b == BandAt(at)
       IN
       IF queue[p][b] # <<>>
       THEN /\ wjob' = [wjob EXCEPT ![w] = try_pop(queue[p][b])[1]]
            /\ queue' = [queue EXCEPT ![p][b] = try_pop(queue[p][b])[2]]
            /\ wpc' = [wpc EXCEPT ![w] = "check"]
       ELSE /\ wpc' = [wpc EXCEPT ![w] = next]
            /\ UNCHANGED <<wjob, queue>>
    /\ scanStart' = [scanStart EXCEPT ![w] = IF at = "deq_high" THEN Len(enqOrder) ELSE @]
    /\ UNCHANGED <<wout, wexp, active_workers>>
    /\ UNCHANGED <<jobVars, log, submitVars, queueHist, cancelOk, crefused, bootVars, diskVars, poolVars, retryVars, lockVars, executed, queryVars, beVars>>

\* dequeue lines 80-82: lock the normal band, cvar.wait(q) without a
\* predicate and without a timeout
Wait(w) ==
    /\ wpc[w] = "wait"
    /\ wpc' = [wpc EXCEPT ![w] = "waiting"]
    /\ UNCHANGED <<wjob, wout, wexp, active_workers, scanStart>>
    /\ UNCHANGED <<jobVars, queue, log, submitVars, queueHist, cancelOk, crefused, bootVars, diskVars, poolVars, retryVars, lockVars, executed, queryVars, beVars>>

\* Condvar::wait may return without a notification
SpuriousWake(w) ==
    /\ wpc[w] = "waiting"
    /\ wpc' = [wpc EXCEPT ![w] = "deq_high"]
    /\ UNCHANGED <<wjob, wout, wexp, active_workers, scanStart>>
    /\ UNCHANGED <<jobVars, queue, log, submitVars, queueHist, cancelOk, crefused, bootVars, diskVars, poolVars, retryVars, lockVars, executed, queryVars, beVars>>

\* worker.rs lines 85-92: a job dequeued as Canceled is skipped, else the
\* worker counts itself active
SkipCanceled(id) == status[id] = "Canceled"

Check(w) ==
    /\ wpc[w] = "check"
    /\ IF SkipCanceled(wjob[w])
       THEN /\ wpc' = [wpc EXCEPT ![w] = "deq_high"]
            /\ wjob' = [wjob EXCEPT ![w] = 0]
            /\ UNCHANGED active_workers
       ELSE /\ wpc' = [wpc EXCEPT ![w] = "start"]
            /\ active_workers' = [active_workers EXCEPT ![WorkerPool(w)] = @ + 1]
            /\ UNCHANGED wjob
    /\ scanStart' = [scanStart EXCEPT ![w] = 0]
    /\ UNCHANGED <<wout, wexp>>
    /\ UNCHANGED <<jobVars, queue, log, submitVars, queueHist, cancelOk, crefused, bootVars, diskVars, poolVars, retryVars, lockVars, executed, queryVars, beVars>>

\* worker.rs lines 108-111 and execute_job lines 140-144: started_at and
\* status = Running are written, whatever the status was
Start(w) ==
    /\ wpc[w] = "start"
    /\ started_at' = [started_at EXCEPT ![wjob[w]] = TRUE]
    /\ status' = [status EXCEPT ![wjob[w]] = "Running"]
    /\ wpc' = [wpc EXCEPT ![w] = "task"]
    /\ UNCHANGED <<jobs, nextId, task, priority, result, finished_at>>
    /\ UNCHANGED <<wjob, wout, wexp, active_workers, scanStart>>
    /\ UNCHANGED <<queue, log, submitVars, queueHist, cancelOk, crefused, bootVars, diskVars, poolVars, retryVars, lockVars, executed, queryVars, beVars>>

\* execute_job lines 146-163: the task table; a task returns Ok or Err, or
\* panics; a name outside the table gives Err("Unknown task '<name>'")
OutcomesAnyName(t, run) == run.outcomes
Outcomes(t, run) == IF t \in ExecTasks THEN run.outcomes ELSE {"Unknown"}

\* faulty variant: out.err() instead of out.ok()
ResultOfErr(out) == IF out = "Ok" THEN None ELSE Some("msg")
\* execute_job lines 166-167: result = out.ok(), finished_at = now
ResultOf(out) == IF out = "Ok" THEN Some("json") ELSE None

ExecTask(w, run) ==
    /\ wpc[w] = "task"
    /\ executed' = [executed EXCEPT ![wjob[w]] = @ + 1]
    /\ \E out \in Outcomes(task[wjob[w]], run) :
         /\ wout' = [wout EXCEPT ![w] = out]
         /\ UNCHANGED wexp
         /\ IF out = "Panic"
            THEN /\ wpc' = [wpc EXCEPT ![w] = "after"]
                 /\ UNCHANGED <<result, finished_at>>
            ELSE /\ wpc' = [wpc EXCEPT ![w] = "status"]
                 /\ result' = [result EXCEPT ![wjob[w]] = ResultOf(out)]
                 /\ finished_at' = [finished_at EXCEPT ![wjob[w]] = TRUE]
    /\ UNCHANGED <<jobs, nextId, task, priority, status, started_at>>
    /\ UNCHANGED <<wjob, active_workers, scanStart>>
    /\ UNCHANGED <<queue, log, submitVars, queueHist, cancelOk, crefused, bootVars, diskVars, poolVars, retryVars, lockVars, queryVars, beVars>>

\* execute_job lines 169-178: the terminal status from the outcome and
\* job.is_expired()
TerminalFromNoExpiry(out, expired, t) ==
    CASE out = "Ok" -> "Done"
      [] out = "Err" -> Error("failed")
      [] OTHER -> Error(UnknownTask(t))
TerminalFrom(out, expired, t) ==
    CASE out = "Ok" -> IF expired THEN "Timeout" ELSE "Done"
      [] out = "Err" -> Error("failed")
      [] OTHER -> Error(UnknownTask(t))

ExecStatus(w, run) ==
    /\ wpc[w] = "status"
    /\ \E expired \in run.expired :
         /\ wexp' = [wexp EXCEPT ![w] = expired]
         /\ status' = [status EXCEPT ![wjob[w]] = TerminalFrom(wout[w], expired, task[wjob[w]])]
    /\ wpc' = [wpc EXCEPT ![w] = "save"]
    /\ UNCHANGED <<jobs, nextId, task, priority, result, started_at, finished_at>>
    /\ UNCHANGED <<wjob, wout, active_workers, scanStart>>
    /\ UNCHANGED <<queue, log, submitVars, queueHist, cancelOk, crefused, bootVars, diskVars, poolVars, retryVars, lockVars, executed, queryVars, beVars>>

\* execute_job line 181: save_job_state(&job, ..)
ExecSave(w) ==
    /\ wpc[w] = "save"
    /\ log' = save_job_state(log, wjob[w])
    /\ wpc' = [wpc EXCEPT ![w] = "after"]
    /\ UNCHANGED <<wjob, wout, wexp, active_workers, scanStart>>
    /\ UNCHANGED <<jobVars, queue, submitVars, queueHist, cancelOk, crefused, bootVars, diskVars, poolVars, retryVars, lockVars, executed, queryVars, beVars>>

\* worker.rs lines 147-158: a panic is recorded as Error("panic"), else
\* finished_at is written; then the worker leaves the active count
After(w) ==
    /\ wpc[w] = "after"
    /\ IF wout[w] = "Panic"
       THEN /\ status' = [status EXCEPT ![wjob[w]] = "Error:panic"]
            /\ UNCHANGED finished_at
       ELSE /\ finished_at' = [finished_at EXCEPT ![wjob[w]] = TRUE]
            /\ UNCHANGED status
    /\ active_workers' = [active_workers EXCEPT ![WorkerPool(w)] = IF @ > 0 THEN @ - 1 ELSE @]
    /\ wpc' = [wpc EXCEPT ![w] = "deq_high"]
    /\ wjob' = [wjob EXCEPT ![w] = 0]
    /\ wout' = [wout EXCEPT ![w] = "none"]
    /\ wexp' = [wexp EXCEPT ![w] = FALSE]
    /\ UNCHANGED <<jobs, nextId, task, priority, result, started_at, scanStart>>
    /\ UNCHANGED <<queue, log, submitVars, queueHist, cancelOk, crefused, bootVars, diskVars, poolVars, retryVars, lockVars, executed, queryVars, beVars>>

Worker(w, run) ==
    \/ TryPop(w, "deq_high", "deq_normal")
    \/ TryPop(w, "deq_normal", "deq_low")
    \/ TryPop(w, "deq_low", "wait")
    \/ Wait(w)
    \/ SpuriousWake(w)
    \/ Check(w)
    \/ Start(w)
    \/ ExecTask(w, run)
    \/ ExecStatus(w, run)
    \/ ExecSave(w)
    \/ After(w)

\* the steps of the loop that a scheduled worker takes by itself
WorkerRuns(w, run) ==
    \/ TryPop(w, "deq_high", "deq_normal")
    \/ TryPop(w, "deq_normal", "deq_low")
    \/ TryPop(w, "deq_low", "wait")
    \/ Wait(w)
    \/ Check(w)
    \/ Start(w)
    \/ ExecTask(w, run)
    \/ ExecStatus(w, run)
    \/ ExecSave(w)
    \/ After(w)

\* ------------------------------------------------------- result endpoint
\* http/router/jobs.rs lines 29-31: job_manager.status(id) answers Done
QueryStatus(id) ==
    /\ qjob = 0
    /\ id \in jobs
    /\ status[id] = "Done"
    /\ qjob' = id
    /\ UNCHANGED qmissing
    /\ UNCHANGED <<jobVars, queue, log, workerVars, submitVars, queueHist, cancelOk, crefused, bootVars, diskVars, poolVars, retryVars, lockVars, executed, beVars>>

\* lines 32-42: then job_manager.result(id); None gives "Job finished but
\* no output available"
QueryResult ==
    /\ qjob # 0
    /\ qmissing' = (qmissing \/ qjob \notin jobs \/ result[qjob] = None)
    /\ qjob' = 0
    /\ UNCHANGED <<jobVars, queue, log, workerVars, submitVars, queueHist, cancelOk, crefused, bootVars, diskVars, poolVars, retryVars, lockVars, executed, beVars>>

\* ---------------------------------------------------- best-effort runner
\* best_effort.rs lines 39-59: the channel, the id slot and the thread are
\* created; the foreground goes to rx.recv_timeout(timeout)
BeCall(r, run) ==
    /\ bpc[r] = "idle"
    /\ nextId + Cardinality(Pending) + Cardinality(BePending) < run.budget
    /\ \E t \in run.tasks, b \in run.bands : breq' = [breq EXCEPT ![r] = <<t, b>>]
    /\ bpc' = [bpc EXCEPT ![r] = "recv"]
    /\ tpc' = [tpc EXCEPT ![r] = "exec"]
    /\ rx' = [rx EXCEPT ![r] = TRUE]
    /\ tx' = [tx EXCEPT ![r] = TRUE]
    /\ UNCHANGED <<brecv, breg, bjob, bout, tres, chan, job_id_slot, inflight>>
    /\ UNCHANGED <<jobVars, queue, log, workerVars, submitVars, queueHist, cancelOk, crefused, bootVars, diskVars, poolVars, retryVars, lockVars, executed, queryVars>>

\* lines 61-66: a value arrived before the deadline
InlineOutcome(v) == IF v = "Ok" THEN "Completed" ELSE "HandlerFailed"
AfterRecvRegister(v) == "register"
\* both arms are the value of execute: the call returns
AfterRecv(v) == "returned"

BeRecv(r) ==
    /\ bpc[r] = "recv"
    /\ chan[r] # None
    /\ UNCHANGED breg
    /\ brecv' = [brecv EXCEPT ![r] = chan[r][1]]
    /\ bout' = [bout EXCEPT ![r] = InlineOutcome(chan[r][1])]
    /\ chan' = [chan EXCEPT ![r] = None]
    /\ rx' = [rx EXCEPT ![r] = FALSE]
    /\ bpc' = [bpc EXCEPT ![r] = AfterRecv(chan[r][1])]
    /\ UNCHANGED <<breq, bjob, tpc, tres, tx, job_id_slot, inflight>>
    /\ UNCHANGED <<jobVars, queue, log, workerVars, submitVars, queueHist, cancelOk, crefused, bootVars, diskVars, poolVars, retryVars, lockVars, executed, queryVars>>

\* line 67: Err(RecvTimeoutError::Timeout): the deadline passed with the
\* buffer empty
BeTimeout(r) ==
    /\ bpc[r] = "recv"
    /\ chan[r] = None
    /\ tx[r]
    /\ UNCHANGED breg
    /\ brecv' = [brecv EXCEPT ![r] = "Timeout"]
    /\ bpc' = [bpc EXCEPT ![r] = "register"]
    /\ UNCHANGED <<breq, bjob, bout, tpc, tres, chan, rx, tx, job_id_slot, inflight>>
    /\ UNCHANGED <<jobVars, queue, log, workerVars, submitVars, queueHist, cancelOk, crefused, bootVars, diskVars, poolVars, retryVars, lockVars, executed, queryVars>>

\* lines 83-87: Err(RecvTimeoutError::Disconnected): the sender is gone and
\* the buffer is empty
BeDisconnected(r) ==
    /\ bpc[r] = "recv"
    /\ chan[r] = None
    /\ ~tx[r]
    /\ UNCHANGED breg
    /\ brecv' = [brecv EXCEPT ![r] = "Disconnected"]
    /\ bout' = [bout EXCEPT ![r] = "Internal"]
    /\ rx' = [rx EXCEPT ![r] = FALSE]
    /\ bpc' = [bpc EXCEPT ![r] = "returned"]
    /\ UNCHANGED <<breq, bjob, tpc, tres, chan, tx, job_id_slot, inflight>>
    /\ UNCHANGED <<jobVars, queue, log, workerVars, submitVars, queueHist, cancelOk, crefused, bootVars, diskVars, poolVars, retryVars, lockVars, executed, queryVars>>

\* manager.register_inflight -> Ok(Job) | Err(QueueFull) | Err(Unknown): the
\* admission rule of submit over queue length plus in-flight count; no
\* enqueue; the job is inserted with status Running and started_at set
InflightCount(p) == Cardinality({id \in inflight : TargetPool(task[id]) = p})
register_inflight_results(p, run) ==
    IF total_len(p) + InflightCount(p) >= run.queue_max
    THEN {"QueueFull"}
    ELSE {"Ok", "Unknown"}

RegisterErrorSwapped(e) == IF e = "QueueFull" THEN "Internal" ELSE "QueueFull"
\* faulty variant: every JobError becomes Internal
RegisterErrorAllInternal(e) == "Internal"
\* the queue of the pool after register_inflight: the job is not enqueued
register_inflight_enqueue(q, b, id) == PushBack(q, b, id)
register_inflight_queue(q, b, id) == q

\* lines 70-75: map_err of the JobError, then `?`
RegisterError(e) == IF e = "QueueFull" THEN "QueueFull" ELSE "Internal"

BeRegister(r, run) ==
    /\ bpc[r] = "register"
    /\ \E res \in register_inflight_results(TargetPool(breq[r][1]), run) :
       /\ breg' = [breg EXCEPT ![r] = res]
       /\ IF res # "Ok"
          THEN /\ bout' = [bout EXCEPT ![r] = RegisterError(res)]
               /\ rx' = [rx EXCEPT ![r] = FALSE]
               /\ chan' = [chan EXCEPT ![r] = None]
               /\ bpc' = [bpc EXCEPT ![r] = "returned"]
               /\ UNCHANGED <<jobVars, queue, bjob, inflight>>
          ELSE /\ nextId' = nextId + 1
               /\ LET id == nextId + 1 IN
                   /\ queue' = [queue EXCEPT ![TargetPool(breq[r][1])] =
                                   register_inflight_queue(@, breq[r][2], id)]
                   /\ task' = [task EXCEPT ![id] = breq[r][1]]
                   /\ priority' = [priority EXCEPT ![id] = breq[r][2]]
                   /\ status' = [status EXCEPT ![id] = "Running"]
                   /\ started_at' = [started_at EXCEPT ![id] = TRUE]
                   /\ jobs' = jobs \cup {id}
                   /\ inflight' = inflight \cup {id}
                   /\ bjob' = [bjob EXCEPT ![r] = id]
               /\ bpc' = [bpc EXCEPT ![r] = "persist"]
               /\ UNCHANGED <<result, finished_at, bout, rx, chan>>
    /\ UNCHANGED <<breq, brecv, tpc, tres, tx, job_id_slot>>
    /\ UNCHANGED <<log, workerVars, submitVars, queueHist, cancelOk, crefused, bootVars, diskVars, poolVars, retryVars, lockVars, executed, queryVars>>

\* register_inflight persists the new job before it returns
BePersist(r) ==
    /\ bpc[r] = "persist"
    /\ log' = save_job_state(log, bjob[r])
    /\ bpc' = [bpc EXCEPT ![r] = "store_id"]
    /\ UNCHANGED <<breq, brecv, breg, bjob, bout, tpc, tres, chan, rx, tx, job_id_slot, inflight>>
    /\ UNCHANGED <<jobVars, queue, workerVars, submitVars, queueHist, cancelOk, crefused, bootVars, diskVars, poolVars, retryVars, lockVars, executed, queryVars>>

\* the slot left as it was created
SlotLeftEmpty(id) == None
\* lines 77-78: *job_id_slot.lock().unwrap() = Some(job_id), before drop(rx)
SlotBeforeDrop(id) == Some(id)

BeStoreId(r) ==
    /\ bpc[r] = "store_id"
    /\ job_id_slot' = [job_id_slot EXCEPT ![r] = SlotBeforeDrop(bjob[r])]
    /\ bpc' = [bpc EXCEPT ![r] = "drop_rx"]
    /\ UNCHANGED <<breq, brecv, breg, bjob, bout, tpc, tres, chan, rx, tx, inflight>>
    /\ UNCHANGED <<jobVars, queue, log, workerVars, submitVars, queueHist, cancelOk, crefused, bootVars, diskVars, poolVars, retryVars, lockVars, executed, queryVars>>

\* lines 79-81: drop(rx) (a buffered value is dropped with it), return
\* Offloaded { job_id }
BeDropRx(r) ==
    /\ bpc[r] = "drop_rx"
    /\ rx' = [rx EXCEPT ![r] = FALSE]
    /\ chan' = [chan EXCEPT ![r] = None]
    /\ bout' = [bout EXCEPT ![r] = "Offloaded"]
    /\ bpc' = [bpc EXCEPT ![r] = "returned"]
    /\ UNCHANGED <<breq, brecv, breg, bjob, tpc, tres, tx, job_id_slot, inflight>>
    /\ UNCHANGED <<jobVars, queue, log, workerVars, submitVars, queueHist, cancelOk, crefused, bootVars, diskVars, poolVars, retryVars, lockVars, executed, queryVars>>

\* lines 44-49: the thread runs the closure; a panic unwinds the thread and
\* drops tx
ThExec(r, run) ==
    /\ tpc[r] = "exec"
    /\ \E out \in run.outcomes :
         IF out = "Panic"
         THEN /\ tpc' = [tpc EXCEPT ![r] = "exit"]
              /\ tx' = [tx EXCEPT ![r] = FALSE]
              /\ tres' = [tres EXCEPT ![r] = "Panic"]
         ELSE /\ tpc' = [tpc EXCEPT ![r] = "send"]
              /\ tres' = [tres EXCEPT ![r] = out]
              /\ UNCHANGED tx
    /\ UNCHANGED <<bpc, breq, brecv, breg, bjob, bout, chan, rx, job_id_slot, inflight>>
    /\ UNCHANGED <<jobVars, queue, log, workerVars, submitVars, queueHist, cancelOk, crefused, bootVars, diskVars, poolVars, retryVars, lockVars, executed, queryVars>>

\* line 50: tx.send(result) on the capacity-1 channel: Ok while the receiver
\* is alive (the buffer is free: this is the only send), Err once it is
\* dropped
SendFails(r) == ~rx[r]

\* faulty variant: sync_channel(0), a channel without a buffer
no_buffer(c) == FALSE
\* line 39: sync_channel(1): a send returns at once while the one place of
\* the buffer is empty, and blocks while it is taken
has_room(c) == c = None

ThSend(r) ==
    /\ tpc[r] = "send"
    /\ IF SendFails(r)
       THEN /\ tpc' = [tpc EXCEPT ![r] = "read_id"]
            /\ UNCHANGED <<chan, tx>>
       ELSE /\ has_room(chan[r])
            /\ chan' = [chan EXCEPT ![r] = Some(tres[r])]
            /\ tpc' = [tpc EXCEPT ![r] = "exit"]
            /\ tx' = [tx EXCEPT ![r] = FALSE]
    /\ UNCHANGED <<bpc, breq, brecv, breg, bjob, bout, tres, rx, job_id_slot, inflight>>
    /\ UNCHANGED <<jobVars, queue, log, workerVars, submitVars, queueHist, cancelOk, crefused, bootVars, diskVars, poolVars, retryVars, lockVars, executed, queryVars>>

\* line 51: if let Some(job_id) = job_id_for_thread.lock().unwrap().clone()
ThReadId(r) ==
    /\ tpc[r] = "read_id"
    /\ tpc' = [tpc EXCEPT ![r] = IF job_id_slot[r] # None THEN "mark" ELSE "exit"]
    /\ tx' = [tx EXCEPT ![r] = job_id_slot[r] # None]
    /\ UNCHANGED <<bpc, breq, brecv, breg, bjob, bout, tres, chan, rx, job_id_slot, inflight>>
    /\ UNCHANGED <<jobVars, queue, log, workerVars, submitVars, queueHist, cancelOk, crefused, bootVars, diskVars, poolVars, retryVars, lockVars, executed, queryVars>>

\* lines 52-55: manager.mark_job_done(&job_id, Ok(json) | Err(err)): sets
\* status, result and finished_at ..
MarkStatus(res) == IF res = "Ok" THEN "Done" ELSE "Error:failed"

ThMark(r) ==
    /\ tpc[r] = "mark"
    /\ LET id == job_id_slot[r][1] IN
        /\ status' = [status EXCEPT ![id] = MarkStatus(tres[r])]
        /\ result' = [result EXCEPT ![id] = ResultOf(tres[r])]
        /\ finished_at' = [finished_at EXCEPT ![id] = TRUE]
        /\ inflight' = inflight \ {id}
    /\ tpc' = [tpc EXCEPT ![r] = "mark_save"]
    /\ UNCHANGED <<jobs, nextId, task, priority, started_at>>
    /\ UNCHANGED <<bpc, breq, brecv, breg, bjob, bout, tres, chan, rx, tx, job_id_slot>>
    /\ UNCHANGED <<queue, log, workerVars, submitVars, queueHist, cancelOk, crefused, bootVars, diskVars, poolVars, retryVars, lockVars, executed, queryVars>>

\* .. and persists
ThMarkSave(r) ==
    /\ tpc[r] = "mark_save"
    /\ log' = save_job_state(log, job_id_slot[r][1])
    /\ tpc' = [tpc EXCEPT ![r] = "exit"]
    /\ tx' = [tx EXCEPT ![r] = FALSE]
    /\ UNCHANGED <<bpc, breq, brecv, breg, bjob, bout, tres, chan, rx, job_id_slot, inflight>>
    /\ UNCHANGED <<jobVars, queue, workerVars, submitVars, queueHist, cancelOk, crefused, bootVars, diskVars, poolVars, retryVars, lockVars, executed, queryVars>>

\* the steps of the calling thread between the call and its return
Foreground(r, run) ==
    \/ BeRecv(r)
    \/ BeTimeout(r)
    \/ BeDisconnected(r)
    \/ BeRegister(r, run)
    \/ BePersist(r)
    \/ BeStoreId(r)
    \/ BeDropRx(r)

BestEffort(r, run) ==
    \/ BeCall(r, run)
    \/ BeRecv(r)
    \/ BeTimeout(r)
    \/ BeDisconnected(r)
    \/ BeRegister(r, run)
    \/ BePersist(r)
    \/ BeStoreId(r)
    \/ BeDropRx(r)
    \/ ThExec(r, run)
    \/ ThSend(r)
    \/ ThReadId(r)
    \/ ThMark(r)
    \/ ThMarkSave(r)

\* ------------------------------------------------- per-endpoint pools
\* the pool adapter of a route, called by the connection thread of request
\* r: ThreadPool::execute (worker_pool.rs lines 202-212) sends
\* Run(closure); the closure runs the route's handler
PoolExecute(r) ==
    /\ pstrong.owner
    /\ r \notin psent
    /\ psent' = psent \cup {r}
    /\ pchan' = Append(pchan, r)
    /\ UNCHANGED <<ppc, pjob, pactive, pbusy, pstrong>>
    /\ UNCHANGED <<jobVars, queue, log, workerVars, submitVars, queueHist, cancelOk, crefused, retryVars, lockVars, bootVars, diskVars, executed, queryVars, beVars>>

\* worker_pool.rs ThreadPool::new: the strong references to the
\* Arc<ThreadPoolInner>: the handle returned to the owner (line 183), the
\* clone inserted in GLOBAL_POOLS (lines 185-188) and the inner_cloned of
\* each live worker thread (line 122)
StrongCount(st) ==
    (IF st.owner THEN 1 ELSE 0) + (IF st.registry THEN 1 ELSE 0) + Cardinality(st.workers)

RECURSIVE Shutdowns(_)
Shutdowns(n) == IF n = 0 THEN <<>> ELSE <<"Shutdown">> \o Shutdowns(n - 1)

\* Drop for ThreadPoolInner, lines 77-99, runs when the last strong
\* reference goes: one Shutdown per worker is sent (the joins follow)
DropInner(ch, st) == IF StrongCount(st) = 0 THEN ch \o Shutdowns(PoolSize) ELSE ch

\* the owner drops its ThreadPool handle
PoolDropHandle ==
    /\ pstrong.owner
    /\ pstrong' = [pstrong EXCEPT !.owner = FALSE]
    /\ pchan' = DropInner(pchan, pstrong')
    /\ UNCHANGED <<psent, ppc, pjob, pactive, pbusy>>
    /\ UNCHANGED <<jobVars, queue, log, workerVars, submitVars, queueHist, cancelOk, crefused, retryVars, lockVars, bootVars, diskVars, executed, queryVars, beVars>>

\* worker loop, lines 141-147: guard.recv() returns Run(job); lines
\* 155-159: on Shutdown the worker marks itself idle and leaves the loop,
\* and the thread ends with its inner_cloned
PoolRecv(pw) ==
    /\ ppc[pw] = "recv"
    /\ pchan # <<>>
    /\ IF Head(pchan) = "Shutdown"
       THEN /\ ppc' = [ppc EXCEPT ![pw] = "exit"]
            /\ pbusy' = [pbusy EXCEPT ![pw] = FALSE]
            /\ pstrong' = [pstrong EXCEPT !.workers = @ \ {pw}]
            /\ pchan' = DropInner(Tail(pchan), pstrong')
            /\ UNCHANGED pjob
       ELSE /\ pjob' = [pjob EXCEPT ![pw] = Head(pchan)]
            /\ pchan' = Tail(pchan)
            /\ ppc' = [ppc EXCEPT ![pw] = "busy"]
            /\ UNCHANGED <<pbusy, pstrong>>
    /\ UNCHANGED <<psent, pactive>>
    /\ UNCHANGED <<jobVars, queue, log, workerVars, submitVars, queueHist, cancelOk, crefused, retryVars, lockVars, bootVars, diskVars, executed, queryVars, beVars>>

\* line 148: info.busy.store(true)
PoolBusy(pw) ==
    /\ ppc[pw] = "busy"
    /\ pbusy' = [pbusy EXCEPT ![pw] = TRUE]
    /\ ppc' = [ppc EXCEPT ![pw] = "add"]
    /\ UNCHANGED <<pchan, psent, pjob, pactive, pstrong>>
    /\ UNCHANGED <<jobVars, queue, log, workerVars, submitVars, queueHist, cancelOk, crefused, retryVars, lockVars, bootVars, diskVars, executed, queryVars, beVars>>

\* line 149: active_workers.fetch_add(1)
PoolAdd(pw) ==
    /\ ppc[pw] = "add"
    /\ pactive' = pactive + 1
    /\ ppc' = [ppc EXCEPT ![pw] = "job"]
    /\ UNCHANGED <<pchan, psent, pjob, pbusy, pstrong>>
    /\ UNCHANGED <<jobVars, queue, log, workerVars, submitVars, queueHist, cancelOk, crefused, retryVars, lockVars, bootVars, diskVars, executed, queryVars, beVars>>

\* line 151: job() is running on worker pw for request r
OnPool(r) == \E pw \in PoolWorkers : ppc[pw] = "job" /\ pjob[pw] = r

\* line 151: job() returns: the handler's call of best_effort::execute has
\* returned
PoolJobReturns(pw) ==
    /\ ppc[pw] = "job"
    /\ bpc[pjob[pw]] = "returned"
    /\ ppc' = [ppc EXCEPT ![pw] = "sub"]
    /\ UNCHANGED <<pchan, psent, pjob, pactive, pbusy, pstrong>>
    /\ UNCHANGED <<jobVars, queue, log, workerVars, submitVars, queueHist, cancelOk, crefused, retryVars, lockVars, bootVars, diskVars, executed, queryVars, beVars>>

\* line 151: job() panics: nothing catches it, the worker thread unwinds
\* and lines 153-154 are not run
PoolJobPanics(pw) ==
    /\ ppc[pw] = "job"
    /\ ppc' = [ppc EXCEPT ![pw] = "dead"]
    /\ pstrong' = [pstrong EXCEPT !.workers = @ \ {pw}]
    /\ pchan' = DropInner(pchan, pstrong')
    /\ UNCHANGED <<psent, pjob, pactive, pbusy>>
    /\ UNCHANGED <<jobVars, queue, log, workerVars, submitVars, queueHist, cancelOk, crefused, retryVars, lockVars, bootVars, diskVars, executed, queryVars, beVars>>

\* line 151 on a route of command.rs lines 297-322: job() is a
\* SimpleHandler, which computes on the worker and returns
PoolPlainReturns(pw) ==
    /\ ppc[pw] = "job"
    /\ bpc[pjob[pw]] = "idle"
    /\ ppc' = [ppc EXCEPT ![pw] = "sub"]
    /\ UNCHANGED <<pchan, psent, pjob, pactive, pbusy, pstrong>>
    /\ UNCHANGED <<jobVars, queue, log, workerVars, submitVars, queueHist, cancelOk, crefused, retryVars, lockVars, bootVars, diskVars, executed, queryVars, beVars>>

PoolActiveKept(a) == a
\* line 153: active_workers.fetch_sub(1)
PoolActiveAfter(a) == a - 1

PoolSub(pw) ==
    /\ ppc[pw] = "sub"
    /\ pactive' = PoolActiveAfter(pactive)
    /\ ppc' = [ppc EXCEPT ![pw] = "idle"]
    /\ UNCHANGED <<pchan, psent, pjob, pbusy, pstrong>>
    /\ UNCHANGED <<jobVars, queue, log, workerVars, submitVars, queueHist, cancelOk, crefused, retryVars, lockVars, bootVars, diskVars, executed, queryVars, beVars>>

\* line 154: info.busy.store(false), then the loop starts over
PoolIdle(pw) ==
    /\ ppc[pw] = "idle"
    /\ pbusy' = [pbusy EXCEPT ![pw] = FALSE]
    /\ pjob' = [pjob EXCEPT ![pw] = "none"]
    /\ ppc' = [ppc EXCEPT ![pw] = "recv"]
    /\ UNCHANGED <<pchan, psent, pactive, pstrong>>
    /\ UNCHANGED <<jobVars, queue, log, workerVars, submitVars, queueHist, cancelOk, crefused, retryVars, lockVars, bootVars, diskVars, executed, queryVars, beVars>>

PoolWorker(pw) ==
    \/ PoolRecv(pw)
    \/ PoolBusy(pw)
    \/ PoolAdd(pw)
    \/ PoolJobReturns(pw)
    \/ PoolJobPanics(pw)
    \/ PoolSub(pw)
    \/ PoolIdle(pw)

\* the worker loop on a route whose handler is a SimpleHandler
PlainPoolWorker(pw) ==
    \/ PoolRecv(pw)
    \/ PoolBusy(pw)
    \/ PoolAdd(pw)
    \/ PoolPlainReturns(pw)
    \/ PoolJobPanics(pw)
    \/ PoolSub(pw)
    \/ PoolIdle(pw)

\* the handler of request r on its pool worker: best_effort::execute
Handler(r, run) ==
    /\ OnPool(r)
    /\ \/ BeCall(r, run)
       \/ Foreground(r, run)

\* the computation thread spawned by best_effort::execute
Computation(r, run) ==
    \/ ThExec(r, run)
    \/ ThSend(r)
    \/ ThReadId(r)
    \/ ThMark(r)
    \/ ThMarkSave(r)

\* ------------------------------------------- save_job_state, step by step
\* persistence.rs lines 20-56: take FILE_LOCK, snapshot the job, read the
\* file without the job's old line, push the snapshot
SaveNoLock(who, id) ==
    /\ fwriter' = [who |-> who, at |-> "open", lines |-> save_job_state(log, id), old |-> log]
    /\ UNCHANGED <<log, tmpfile, crashed, bootVars, poolVars, retryVars, lockVars>>
    /\ UNCHANGED <<jobVars, queue, workerVars, submitVars, queueHist, cancelOk, crefused, executed, queryVars, beVars>>

SaveLock(who, id) ==
    /\ fwriter = NoWriter
    /\ fwriter' = [who |-> who, at |-> "open", lines |-> save_job_state(log, id), old |-> log]
    /\ UNCHANGED <<log, tmpfile, crashed, bootVars, poolVars, retryVars, lockVars>>
    /\ UNCHANGED <<jobVars, queue, workerVars, submitVars, queueHist, cancelOk, crefused, executed, queryVars, beVars>>

\* lines 59-60: open <path>.tmp with create and truncate
SaveOpenTmp(who) ==
    /\ fwriter.who = who
    /\ fwriter.at = "open"
    /\ tmpfile' = <<>>
    /\ fwriter' = [fwriter EXCEPT !.at = "write"]
    /\ UNCHANGED <<log, crashed, bootVars, poolVars, retryVars, lockVars>>
    /\ UNCHANGED <<jobVars, queue, workerVars, submitVars, queueHist, cancelOk, crefused, executed, queryVars, beVars>>

\* lines 62-66: the loop has written every line when it ends
WrittenAny(t, lines) == TRUE
Written(t, lines) == Len(t) = Len(lines)

\* line 63: writeln! of the next line
SaveWriteLine(who) ==
    /\ fwriter.who = who
    /\ fwriter.at = "write"
    /\ Len(tmpfile) < Len(fwriter.lines)
    /\ tmpfile' = Append(tmpfile, fwriter.lines[Len(tmpfile) + 1])
    /\ UNCHANGED <<log, fwriter, crashed, bootVars, poolVars, retryVars, lockVars>>
    /\ UNCHANGED <<jobVars, queue, workerVars, submitVars, queueHist, cancelOk, crefused, executed, queryVars, beVars>>

\* line 67: fs::rename(tmp, path), then the guard is dropped
SaveRename(who) ==
    /\ fwriter.who = who
    /\ fwriter.at = "write"
    /\ Written(tmpfile, fwriter.lines)
    /\ log' = tmpfile
    /\ tmpfile' = <<>>
    /\ fwriter' = NoWriter
    /\ UNCHANGED <<crashed, bootVars, poolVars, retryVars, lockVars>>

SaveSteps(who, id) == SaveLock(who, id) \/ SaveOpenTmp(who) \/ SaveWriteLine(who)

\* manager.rs line 109, with the file operations of save_job_state
SubmitSaveSteps(s) ==
    /\ spc[s] = "save"
    /\ SaveSteps(s, sjob[s])

SubmitSaveRename(s) ==
    /\ spc[s] = "save"
    /\ SaveRename(s)
    /\ spc' = [spc EXCEPT ![s] = "enqueue"]
    /\ UNCHANGED <<sreq, sjob, sres>>
    /\ UNCHANGED <<jobVars, queue, workerVars, cancelOk, crefused, executed, queryVars, beVars, queueHist>>

\* manager.rs line 181, with the file operations of save_job_state
ExecSaveSteps(w) ==
    /\ wpc[w] = "save"
    /\ SaveSteps(w, wjob[w])

ExecSaveRename(w) ==
    /\ wpc[w] = "save"
    /\ SaveRename(w)
    /\ wpc' = [wpc EXCEPT ![w] = "after"]
    /\ UNCHANGED <<wjob, wout, wexp, active_workers, scanStart>>
    /\ UNCHANGED <<jobVars, queue, submitVars, queueHist, cancelOk, crefused, executed, queryVars, beVars>>

\* ---------------------------------------------------- crash and recovery
\* the process dies; the files stay
Crash ==
    /\ ~crashed
    /\ lpc = "none"
    /\ crashed' = TRUE
    /\ UNCHANGED <<tmpfile, fwriter, bootVars, poolVars, retryVars, lockVars>>
    /\ UNCHANGED <<jobVars, queue, log, workerVars, submitVars, queueHist, cancelOk, crefused, executed, queryVars, beVars>>

\* faulty variant: ids from a counter that starts again in every process
counter_after_restart(n) == n - n
\* job.rs line 42: id: Uuid::new_v4(): the ids made by a new process differ
\* from every id made before
new_v4_after_restart(n) == n

\* manager.rs JobManager::new lines 30-49: a fresh process on the same
\* persistence path: empty registry and queues, workers at the top of
\* their loop, then load_persistent_jobs
Startup ==
    /\ crashed
    /\ crashed' = FALSE
    /\ fwriter' = NoWriter
    /\ lpc' = "read"
    /\ bootlog' = log
    /\ jobs' = {}
    /\ task' = [j \in JobIds |-> NoJob]
    /\ priority' = [j \in JobIds |-> NoJob]
    /\ status' = [j \in JobIds |-> NoJob]
    /\ result' = [j \in JobIds |-> None]
    /\ started_at' = [j \in JobIds |-> FALSE]
    /\ finished_at' = [j \in JobIds |-> FALSE]
    /\ queue' = [p \in Pools |-> EmptyQueue]
    /\ enqOrder' = <<>>
    /\ active_workers' = [p \in Pools |-> 0]
    /\ wpc' = [w \in Workers |-> "deq_high"]
    /\ wjob' = [w \in Workers |-> 0]
    /\ wout' = [w \in Workers |-> "none"]
    /\ wexp' = [w \in Workers |-> FALSE]
    /\ scanStart' = [w \in Workers |-> 0]
    /\ spc' = [s \in Submitters |-> "idle"]
    /\ sreq' = [s \in Submitters |-> <<>>]
    /\ sjob' = [s \in Submitters |-> 0]
    /\ sres' = [s \in Submitters |-> "none"]
    /\ cancelOk' = {}
    /\ crefused' = 0
    /\ executed' = [j \in JobIds |-> 0]
    /\ nextId' = new_v4_after_restart(nextId)
    /\ UNCHANGED <<log, tmpfile, restored, queryVars, beVars, poolVars, retryVars, lockVars>>

\* persistence.rs load_job_states lines 107-111
LoadPriority(s) ==
    CASE s = "High" -> "High"
      [] s = "Low" -> "Low"
      [] OTHER -> "Normal"
\* line 118: s.starts_with("Error"), over the strings save_job_state writes
starts_with_Error(s) == \E m \in Messages : s = ErrorDebug(m)
\* lines 113-120
LoadStatus(s) ==
    CASE s = "Queued" -> "Queued"
      [] s = "Running" -> "Queued"
      [] s = "Done" -> "Done"
      [] s = "Canceled" -> "Canceled"
      [] starts_with_Error(s) -> Error(s)
      [] OTHER -> "Queued"
\* lines 122-133: the SavedJob of a line
SavedJob(rec) == [id |-> rec.id, task |-> rec.task,
                  priority |-> LoadPriority(rec.priority),
                  status |-> LoadStatus(rec.status),
                  result |-> Some(rec.result)]
\* persistence.rs load_job_states lines 89-140
load_job_states(l) == [i \in 1..Len(l) |-> SavedJob(l[i])]

\* manager.rs load_persistent_jobs lines 227-228
LoadRead ==
    /\ lpc = "read"
    /\ fwriter = NoWriter
    /\ restored' = load_job_states(log)
    /\ lpc' = "insert"
    /\ UNCHANGED <<bootlog, diskVars, poolVars, retryVars, lockVars>>
    /\ UNCHANGED <<jobVars, queue, log, workerVars, submitVars, queueHist, cancelOk, crefused, executed, queryVars, beVars>>

\* manager.rs line 258: matches!(record.status, Queued | Running)
Requeued(st) == st \in {"Queued", "Running"}

\* lines 230-256: Job::from_saved (job.rs 67-81) and the registry insert;
\* line 258 decides whether the record is enqueued
LoadInsert ==
    /\ lpc = "insert"
    /\ IF restored = <<>>
       THEN /\ lpc' = "done"
            /\ UNCHANGED <<jobVars, restored>>
       ELSE LET rec == Head(restored) IN
            /\ jobs' = jobs \cup {rec.id}
            /\ task' = [task EXCEPT ![rec.id] = rec.task]
            /\ priority' = [priority EXCEPT ![rec.id] = rec.priority]
            /\ status' = [status EXCEPT ![rec.id] = rec.status]
            /\ result' = [result EXCEPT ![rec.id] = rec.result]
            /\ started_at' = [started_at EXCEPT ![rec.id] = FALSE]
            /\ finished_at' = [finished_at EXCEPT ![rec.id] = FALSE]
            /\ UNCHANGED nextId
            /\ IF Requeued(rec.status)
               THEN lpc' = "enqueue" /\ UNCHANGED restored
               ELSE lpc' = "insert" /\ restored' = Tail(restored)
    /\ UNCHANGED <<bootlog, diskVars, poolVars, retryVars, lockVars>>
    /\ UNCHANGED <<queue, log, workerVars, submitVars, queueHist, cancelOk, crefused, executed, queryVars, beVars>>

\* queue.rs enqueue lines 23-64: after the retries, a full queue cancels
\* the job; else push_back on the band of job.priority and notify_all on
\* that band's condition variable (the workers wait on the normal band's)
enqueue(p, id, run) ==
    IF total_len(p) >= run.queue_max
    THEN /\ status' = [status EXCEPT ![id] = "Canceled"]
         /\ UNCHANGED <<queue, enqOrder, wpc>>
    ELSE /\ queue' = [queue EXCEPT ![p] = PushBack(@, priority[id], id)]
         /\ enqOrder' = Append(enqOrder, id)
         /\ wpc' = [w \in Workers |->
                      IF w \in Waiting(p) /\ priority[id] = "Normal"
                      THEN "deq_high" ELSE wpc[w]]
         /\ UNCHANGED status

\* lines 259-272: the pool of the record's task, or none
RequeuePool(t) ==
    IF is_cpu_bound(t) THEN "cpu" ELSE IF is_io_bound(t) THEN "io" ELSE "skipped"

LoadEnqueue(run) ==
    /\ lpc = "enqueue"
    /\ LET rec == Head(restored) IN
       IF RequeuePool(rec.task) = "skipped"
       THEN UNCHANGED <<status, queue, enqOrder, wpc>>
       ELSE enqueue(RequeuePool(rec.task), rec.id, run)
    /\ restored' = Tail(restored)
    /\ lpc' = "insert"
    /\ UNCHANGED <<bootlog, diskVars, poolVars, retryVars, lockVars>>
    /\ UNCHANGED <<jobs, nextId, task, priority, result, started_at, finished_at>>
    /\ UNCHANGED <<log, wjob, wout, wexp, active_workers, scanStart, submitVars, cancelOk, crefused, executed, queryVars, beVars>>

load_persistent_jobs(run) == LoadRead \/ LoadInsert \/ LoadEnqueue(run)

\* -------------------------------------------------------- specifications
(* A run fixes what the environment of the run does: the task names and   *)
(* priorities the clients send, the number of jobs constructed,           *)
(* JOB_QUEUE_MAX, the outcomes of the tasks and whether a job outlives    *)
(* its timeout.                                                           *)
AllOutcomes == {"Ok", "Err", "Panic"}

LifeRun == [tasks |-> {"isprime", "nosuch"}, bands |-> {"Normal"}, budget |-> LifeJobs,
            queue_max |-> QueueMax, outcomes |-> AllOutcomes, expired |-> BOOLEAN]

\* whole job lives: one submitter, cancel, one worker per pool, the result
\* endpoint
Next ==
    \/ \E s \in {"s1"} : SubmitAccepted(s, LifeRun)
    \/ \E id \in JobIds : cancel(id)
    \/ \E w \in {"cpu-0", "io-0"} : Worker(w, LifeRun)
    \/ \E id \in JobIds : QueryStatus(id)
    \/ QueryResult

Spec == Init /\ [][Next]_vars

BeRun == [tasks |-> {"isprime"}, bands |-> {"Normal"}, budget |-> LifeJobs,
          queue_max |-> SmallQueue, outcomes |-> AllOutcomes, expired |-> BOOLEAN]

\* best-effort requests next to a submitter that fills the queue
NextBE ==
    \/ \E r \in Requests : BestEffort(r, BeRun)
    \/ \E s \in {"s1"} : SubmitAccepted(s, BeRun)
    \/ \E id \in JobIds : QueryStatus(id)
    \/ QueryResult

SpecBE == Init /\ [][NextBE]_vars

\* the steps of the computation thread after the closure has returned
AfterClosure(r) == ThSend(r) \/ ThReadId(r) \/ ThMark(r) \/ ThMarkSave(r)

\* the computation thread is scheduled whenever it can take a step; nothing
\* is assumed of the calling thread
FairBE ==
    /\ Init
    /\ [][NextBE]_vars
    /\ \A r \in Requests : WF_vars(AfterClosure(r))

QueueRun == [tasks |-> {"isprime"}, bands |-> Bands, budget |-> MaxJobs,
             queue_max |-> QueueMax, outcomes |-> {"Ok"}, expired |-> {FALSE}]

\* the priority queue under one submitter and two workers of one pool
NextDequeue ==
    \/ \E s \in {"s1"} : SubmitAccepted(s, QueueRun)
    \/ \E w \in {"cpu-0", "cpu-1"} : Worker(w, QueueRun)

SpecDequeue == Init /\ [][NextDequeue]_vars

\* the priority queue under two submitters and one worker
NextQueue ==
    \/ \E s \in Submitters : SubmitAccepted(s, QueueRun)
    \/ \E w \in {"cpu-0"} : Worker(w, QueueRun)

SpecQueue == Init /\ [][NextQueue]_vars

RaceRun == [tasks |-> {"isprime"}, bands |-> {"Normal", "High"}, budget |-> LifeJobs,
            queue_max |-> SmallQueue, outcomes |-> {"Ok"}, expired |-> {FALSE}]

\* admission under two racing submitters and one worker
NextAdmission ==
    \/ \E s \in Submitters : Submit(s, RaceRun)
    \/ \E w \in {"cpu-0"} : Worker(w, RaceRun)

SpecAdmission == Init /\ [][NextAdmission]_vars

FairRun == [tasks |-> {"isprime"}, bands |-> Bands, budget |-> LifeJobs,
            queue_max |-> QueueMax, outcomes |-> {"Ok", "Err"}, expired |-> BOOLEAN]

\* one submitter and one worker; a call that has begun runs to its return
\* and the worker thread is scheduled whenever it can take a step
NextFair ==
    \/ \E s \in {"s1"} : SubmitAccepted(s, FairRun)
    \/ \E w \in {"cpu-0"} : Worker(w, FairRun)

SubmitRuns(s, run) == SubmitInsert(s) \/ SubmitSave(s) \/ SubmitEnqueue(s, run)

FairSpec ==
    /\ Init
    /\ [][NextFair]_vars
    /\ WF_vars(WorkerRuns("cpu-0", FairRun))
    /\ WF_vars(SubmitRuns("s1", FairRun))

RegistryRun == [tasks |-> {"isprime"}, bands |-> {"Normal"}, budget |-> LifeJobs,
                queue_max |-> SmallQueue, outcomes |-> {"Ok"}, expired |-> {FALSE}]

\* a best-effort request whose closure returns: the sender is never dropped
\* unsent, so recv_timeout has no Disconnected arm to take
BestEffortReturns(r, run) ==
    \/ BeCall(r, run)
    \/ BeRecv(r)
    \/ BeTimeout(r)
    \/ BeRegister(r, run)
    \/ BePersist(r)
    \/ BeStoreId(r)
    \/ BeDropRx(r)
    \/ ThExec(r, run)
    \/ ThSend(r)
    \/ ThReadId(r)
    \/ ThMark(r)
    \/ ThMarkSave(r)

\* the registry under two racing submitters, cancel calls, one worker and
\* one best-effort request
NextRegistry ==
    \/ \E s \in Submitters : Submit(s, RegistryRun)
    \/ \E id \in JobIds : cancel(id)
    \/ \E w \in {"cpu-0"} : Worker(w, RegistryRun)
    \/ \E r \in {"r1"} : BestEffortReturns(r, RegistryRun)

SpecRegistry == Init /\ [][NextRegistry]_vars

CancelRun == [tasks |-> {"isprime"}, bands |-> {"Normal"}, budget |-> LifeJobs,
              queue_max |-> QueueMax, outcomes |-> AllOutcomes, expired |-> BOOLEAN]

\* cancel calls, accepted and refused, next to one submitter and one worker
NextCancel ==
    \/ \E s \in {"s1"} : SubmitAccepted(s, CancelRun)
    \/ \E id \in JobIds : cancel(id)
    \/ \E id \in JobIds : cancel_refused(id)
    \/ \E w \in {"cpu-0"} : Worker(w, CancelRun)

SpecCancel == Init /\ [][NextCancel]_vars

DiskRun == [tasks |-> {"isprime"}, bands |-> {"Normal"}, budget |-> LifeJobs,
            queue_max |-> QueueMax, outcomes |-> {"Ok", "Err"}, expired |-> {FALSE}]

\* submit and a worker with every save done file operation by file
\* operation, and a crash of the process at any step
NextDisk ==
    \/ /\ ~crashed
       /\ \/ \E s \in {"s1"} :
               \/ SubmitCheck(s, DiskRun)
               \/ SubmitInsert(s)
               \/ SubmitSaveSteps(s)
               \/ SubmitSaveRename(s)
               \/ SubmitEnqueue(s, DiskRun)
          \/ \E w \in {"cpu-0"} :
               \/ TryPop(w, "deq_high", "deq_normal")
               \/ TryPop(w, "deq_normal", "deq_low")
               \/ TryPop(w, "deq_low", "wait")
               \/ Wait(w)
               \/ SpuriousWake(w)
               \/ Check(w)
               \/ Start(w)
               \/ ExecTask(w, DiskRun)
               \/ ExecStatus(w, DiskRun)
               \/ ExecSaveSteps(w)
               \/ ExecSaveRename(w)
               \/ After(w)
    \/ Crash

SpecDisk == Init /\ [][NextDisk]_vars

RecoverRun == [tasks |-> {"isprime", "nosuch"}, bands |-> {"Normal"}, budget |-> LifeJobs,
               queue_max |-> QueueMax, outcomes |-> {"Ok", "Err", "Panic"}, expired |-> BOOLEAN]

\* a process that dies at any moment and is started again on its log
NextRecover ==
    \/ /\ ~crashed
       /\ \/ /\ lpc \in {"none", "done"}
             /\ \/ \E s \in {"s1"} : SubmitAccepted(s, RecoverRun)
                \/ \E id \in JobIds : cancel(id)
          \/ \E w \in {"cpu-0", "io-0"} : Worker(w, RecoverRun)
          \/ load_persistent_jobs(RecoverRun)
    \/ Crash
    \/ Startup

SpecRecover == Init /\ [][NextRecover]_vars

OffloadRun == [tasks |-> {"isprime"}, bands |-> {"Normal"}, budget |-> LifeJobs,
               queue_max |-> QueueMax, outcomes |-> {"Ok", "Panic"}, expired |-> {FALSE}]

\* a best-effort request beside a submitter and a queue worker of the pool
NextOffload ==
    \/ \E r \in {"r1"} : BestEffort(r, OffloadRun)
    \/ \E s \in {"s1"} : SubmitAccepted(s, OffloadRun)
    \/ \E w \in {"cpu-0"} : Worker(w, OffloadRun)

SpecOffload == Init /\ [][NextOffload]_vars

RouteRun == [tasks |-> {"isprime"}, bands |-> {"Normal"}, budget |-> LifeJobs,
             queue_max |-> QueueMax, outcomes |-> {"Ok", "Err", "Panic"}, expired |-> {FALSE}]

\* the requests of one route through its pool, beside a submitter and the
\* worker of the IO job pool
NextRoute ==
    \/ \E r \in Requests : PoolExecute(r)
    \/ \E pw \in PoolWorkers : PoolWorker(pw)
    \/ \E r \in Requests : Handler(r, RouteRun)
    \/ \E r \in Requests : Computation(r, RouteRun)

SpecRoute == Init /\ [][NextRoute]_vars

\* the pool of a route whose owner may drop its handle
NextShutdown ==
    \/ NextRoute
    \/ PoolDropHandle

SpecShutdown == Init /\ [][NextShutdown]_vars

\* ------------------------------------------------ a save that fails
\* persistence.rs lines 58-70: a failed open skips the write, a failed
\* writeln! or rename is reported with eprintln!; save_job_state returns ()
\* in every case and the state file is left as it was
SaveErrors == {"open", "rename"}
\* <path>.tmp after the failure: untouched, or written and left behind
TmpAfterError(e, l, id) == IF e = "rename" THEN save_job_state(l, id) ELSE tmpfile
\* where the caller goes on after a save that failed
AbortOnSaveError(next) == "idle"
AfterSaveError(next) == next

\* manager.rs line 109 with a failing save
SubmitSaveFails(s) ==
    /\ spc[s] = "save"
    /\ \E e \in SaveErrors : tmpfile' = TmpAfterError(e, log, sjob[s])
    /\ spc' = [spc EXCEPT ![s] = AfterSaveError("enqueue")]
    /\ UNCHANGED <<sreq, sjob, sres>>
    /\ UNCHANGED <<jobVars, queue, log, fwriter, crashed, workerVars, cancelOk, crefused, bootVars, poolVars, retryVars, lockVars, executed, queryVars, beVars, queueHist>>

\* execute_job line 181 with a failing save
ExecSaveFails(w) ==
    /\ wpc[w] = "save"
    /\ \E e \in SaveErrors : tmpfile' = TmpAfterError(e, log, wjob[w])
    /\ wpc' = [wpc EXCEPT ![w] = AfterSaveError("after")]
    /\ UNCHANGED <<wjob, wout, wexp, active_workers, scanStart>>
    /\ UNCHANGED <<jobVars, queue, log, fwriter, crashed, submitVars, queueHist, cancelOk, crefused, bootVars, poolVars, retryVars, lockVars, executed, queryVars, beVars>>

SaveFailRun == [tasks |-> {"isprime"}, bands |-> {"Normal"}, budget |-> LifeJobs,
                queue_max |-> QueueMax, outcomes |-> {"Ok", "Err"}, expired |-> {FALSE}]

\* a submitter and a worker on a disk whose writes may fail
NextSaveFail ==
    \/ \E s \in {"s1"} : SubmitAccepted(s, SaveFailRun)
    \/ \E s \in {"s1"} : SubmitSaveFails(s)
    \/ \E w \in {"cpu-0"} : Worker(w, SaveFailRun)
    \/ \E w \in {"cpu-0"} : ExecSaveFails(w)

SpecSaveFail == Init /\ [][NextSaveFail]_vars

\* ------------------------------------------------- the 503 of a refusal
\* the arithmetic of the build: overflow checks on (debug) or off (release)
Builds == {"debug", "release"}

\* cpu_bound.rs lines 35-41, io_bound.rs lines 37-43, jobs.rs lines 124-130:
\* let retry_after_secs = ((retry_after_ms + 999) / 1000).max(1);
RetryAfterSecs(ms) == max_1(div_1000(wrapping_add(ms, 999)))

queue_full_response(build) ==
    /\ response = "none"
    /\ IF overflows(retry_after_ms, 999) /\ build = "debug"
       THEN /\ response' = "panic"
            /\ UNCHANGED retry_after_secs
       ELSE /\ response' = "503"
            /\ retry_after_secs' = RetryAfterSecs(retry_after_ms)
    /\ UNCHANGED retry_after_ms
    /\ UNCHANGED <<jobVars, queue, log, workerVars, submitVars, queueHist, cancelOk, crefused, executed, queryVars, beVars, bootVars, diskVars, poolVars, lockVars>>

\* the hints a QueueFull error can carry: the low values and the values
\* next to u64::MAX
RetryInputs ==
    {FromNat(n) : n \in 0..MaxMs} \cup {minus(U64_MAX, FromNat(n)) : n \in 0..MaxMs}

InitRetry ==
    /\ InitJobs
    /\ retry_after_ms \in RetryInputs

NextRetry == \E build \in Builds : queue_full_response(build)

SpecRetry == InitRetry /\ [][NextRetry]_vars

MetricsRun == [tasks |-> {"sortfile"}, bands |-> {"Normal"}, budget |-> LifeJobs,
               queue_max |-> QueueMax, outcomes |-> {"Ok", "Panic"}, expired |-> {FALSE}]

\* the counters of a per-endpoint pool and of the IO job pool: requests of
\* a plain route, a submitter and the IO worker
NextMetrics ==
    \/ \E r \in Requests : PoolExecute(r)
    \/ \E pw \in PoolWorkers : PlainPoolWorker(pw)
    \/ \E s \in {"s1"} : SubmitAccepted(s, MetricsRun)
    \/ \E w \in {"io-0"} : Worker(w, MetricsRun)

SpecMetrics == Init /\ [][NextMetrics]_vars

FairRecoverRun == [tasks |-> {"isprime", "nosuch"}, bands |-> {"Normal"}, budget |-> LifeJobs,
                   queue_max |-> QueueMax, outcomes |-> {"Ok"}, expired |-> {FALSE}]

NextFairRecover ==
    \/ /\ ~crashed
       /\ \/ /\ lpc \in {"none", "done"}
             /\ \E s \in {"s1"} : SubmitAccepted(s, FairRecoverRun)
          \/ \E w \in {"cpu-0", "io-0"} : Worker(w, FairRecoverRun)
          \/ load_persistent_jobs(FairRecoverRun)
    \/ Crash
    \/ Startup

\* the process is started again after it died, JobManager::new runs
\* load_persistent_jobs to its end, a submit that has begun returns, and the
\* worker threads are scheduled whenever they can take a step
FairRecover ==
    /\ Init
    /\ [][NextFairRecover]_vars
    /\ WF_vars(Startup)
    /\ WF_vars(~crashed /\ load_persistent_jobs(FairRecoverRun))
    /\ WF_vars(~crashed /\ lpc \in {"none", "done"} /\ SubmitRuns("s1", FairRecoverRun))
    /\ WF_vars(~crashed /\ WorkerRuns("cpu-0", FairRecoverRun))
    /\ WF_vars(~crashed /\ WorkerRuns("io-0", FairRecoverRun))

OnceRun == [tasks |-> {"isprime"}, bands |-> {"Normal"}, budget |-> LifeJobs,
            queue_max |-> QueueMax, outcomes |-> {"Ok", "Panic"}, expired |-> {FALSE}]

\* one submitter and the two workers of one pool, in a process that dies at
\* any moment and is started again on its log
NextOnce ==
    \/ /\ ~crashed
       /\ \/ /\ lpc \in {"none", "done"}
             /\ \E s \in {"s1"} : SubmitAccepted(s, OnceRun)
          \/ \E w \in {"cpu-0", "cpu-1"} : Worker(w, OnceRun)
          \/ load_persistent_jobs(OnceRun)
    \/ Crash
    \/ Startup

SpecOnce == Init /\ [][NextOnce]_vars

PersistRun == [tasks |-> {"isprime"}, bands |-> {"Normal"}, budget |-> LifeJobs,
               queue_max |-> QueueMax, outcomes |-> {"Ok", "Err"}, expired |-> BOOLEAN]

\* the writers of the log over the lifetimes of a process: a submitter and a
\* worker, a crash at any moment, and the restart on the log
NextPersist ==
    \/ /\ ~crashed
       /\ \/ /\ lpc \in {"none", "done"}
             /\ \E s \in {"s1"} : SubmitAccepted(s, PersistRun)
          \/ \E w \in {"cpu-0"} : Worker(w, PersistRun)
          \/ load_persistent_jobs(PersistRun)
    \/ Crash
    \/ Startup

SpecPersist == Init /\ [][NextPersist]_vars

\* two submitters and a worker, every save done file operation by file
\* operation: the writers of the job log
NextWriters ==
    \/ \E s \in Submitters :
          \/ SubmitCheck(s, DiskRun)
          \/ SubmitInsert(s)
          \/ SubmitSaveSteps(s)
          \/ SubmitSaveRename(s)
          \/ SubmitEnqueue(s, DiskRun)
    \/ \E w \in {"cpu-0"} :
          \/ TryPop(w, "deq_high", "deq_normal")
          \/ TryPop(w, "deq_normal", "deq_low")
          \/ TryPop(w, "deq_low", "wait")
          \/ Wait(w)
          \/ SpuriousWake(w)
          \/ Check(w)
          \/ Start(w)
          \/ ExecTask(w, DiskRun)
          \/ ExecStatus(w, DiskRun)
          \/ ExecSaveSteps(w)
          \/ ExecSaveRename(w)
          \/ After(w)

SpecWriters == Init /\ [][NextWriters]_vars

\* ------------------------------------------------------------ mutexes
\* The mutexes of one job and of the queue it goes to. Each call is the
\* sequence of lock operations its code performs; a guard created as a
\* temporary lives to the end of its statement, a guard bound with let to the
\* end of its block.
Registry == "jobs"                 \* JobManager.jobs
JobFields == {"status", "progress", "result", "started_at", "finished_at", "cancel_flag"}
BandLocks == {"high", "normal", "low"}
BandLock(b) == CASE b = "High" -> "high" [] b = "Normal" -> "normal" [] OTHER -> "low"

Acq(l) == [op |-> "lock", lock |-> l]
Rel(l) == [op |-> "drop", lock |-> l]
CondWait(l) == [op |-> "wait", lock |-> l]
\* *x.lock().unwrap() = v;  the guard is dropped at the end of the statement
Scoped(l) == <<Acq(l), Rel(l)>>

\* queue.rs try_pop: let mut q = lock.lock().unwrap(); q.pop_front()
try_pop_locks(l) == Scoped(l)

\* queue.rs len_by_priority: the three guards are temporaries of one tuple
\* expression, dropped together, in reverse order, when the function returns
len_by_priority_locks ==
    <<Acq("high"), Acq("normal"), Acq("low"), Rel("low"), Rel("normal"), Rel("high")>>

\* persistence.rs save_job_state: FILE_LOCK for the whole call, each field
\* guard for one entry of the snapshot
save_job_state_locks ==
    <<Acq("FILE_LOCK")>>
        \o Scoped("status") \o Scoped("progress") \o Scoped("result")
        \o Scoped("started_at") \o Scoped("finished_at") \o Scoped("cancel_flag")
        \o <<Rel("FILE_LOCK")>>

\* manager.rs submit: refused on the length check; accepted; rolled back
submit_locks ==
    {len_by_priority_locks}
        \cup {len_by_priority_locks \o Scoped(Registry) \o save_job_state_locks
                  \o Scoped(BandLock(b)) : b \in Bands}
        \cup {len_by_priority_locks \o Scoped(Registry) \o save_job_state_locks
                  \o len_by_priority_locks \o Scoped(Registry)}

\* manager.rs status, result, cancel: the field guard inside the registry guard
status_locks == <<Acq(Registry), Acq("status"), Rel("status"), Rel(Registry)>>
result_locks == <<Acq(Registry), Acq("result"), Rel("result"), Rel(Registry)>>
cancel_locks == <<Acq(Registry), Acq("status"), Rel("status"), Rel(Registry)>>

\* queue.rs dequeue: the bands tried in order until one yields a job
dequeue_locks ==
    {try_pop_locks("high"),
     try_pop_locks("high") \o try_pop_locks("normal"),
     try_pop_locks("high") \o try_pop_locks("normal") \o try_pop_locks("low")}

\* queue.rs dequeue, all bands empty: the normal band is locked, the wait
\* releases it, and it is locked again when the wait returns
dequeue_wait_locks ==
    try_pop_locks("high") \o try_pop_locks("normal") \o try_pop_locks("low")
        \o <<Acq("normal"), CondWait("normal"), Acq("normal"), Rel("normal")>>

\* manager.rs execute_job, to the call of the task and after it
execute_job_start_locks == Scoped("status") \o Scoped("started_at")
execute_job_end_locks ==
    Scoped("result") \o Scoped("finished_at") \o Scoped("status") \o save_job_state_locks

\* worker.rs: one turn of the worker loop: a wait; a canceled job skipped; a
\* job run to its end; a job whose task panics
worker_loop_locks ==
    {dequeue_wait_locks}
        \cup {d \o Scoped("status") : d \in dequeue_locks}
        \cup {d \o Scoped("status") \o Scoped("started_at") \o Scoped("status")
                  \o execute_job_start_locks \o execute_job_end_locks
                  \o Scoped("finished_at") : d \in dequeue_locks}
        \cup {d \o Scoped("status") \o Scoped("started_at") \o Scoped("status")
                  \o execute_job_start_locks \o Scoped("status") : d \in dequeue_locks}

Calls(t) ==
    IF t \in Workers THEN worker_loop_locks
    ELSE submit_locks \cup {status_locks, result_locks, cancel_locks}

Holder(l) == {t \in LockThreads : \E i \in 1..Len(held[t]) : held[t][i] = l}
Without(h, l) == SelectSeq(h, LAMBDA x : x # l)

LockRest == <<jobVars, queue, log, workerVars, submitVars, queueHist, cancelOk, crefused, executed,
              queryVars, beVars, bootVars, diskVars, poolVars, retryVars>>

\* a thread enters one of its calls
Call(t) ==
    /\ todo[t] = <<>>
    /\ \E c \in Calls(t) : todo' = [todo EXCEPT ![t] = c]
    /\ UNCHANGED <<held, LockRest>>

\* Mutex::lock: blocks while any thread holds the mutex
Lock(t) ==
    /\ todo[t] # <<>>
    /\ Head(todo[t]).op = "lock"
    /\ Holder(Head(todo[t]).lock) = {}
    /\ held' = [held EXCEPT ![t] = Append(@, Head(todo[t]).lock)]
    /\ todo' = [todo EXCEPT ![t] = Tail(@)]
    /\ UNCHANGED LockRest

\* the guard goes out of scope
Drop(t) ==
    /\ todo[t] # <<>>
    /\ Head(todo[t]).op = "drop"
    /\ held' = [held EXCEPT ![t] = Without(@, Head(todo[t]).lock)]
    /\ todo' = [todo EXCEPT ![t] = Tail(@)]
    /\ UNCHANGED LockRest

\* Condvar::wait: gives the mutex up; the thread locks it again to return
CondvarWait(t) ==
    /\ todo[t] # <<>>
    /\ Head(todo[t]).op = "wait"
    /\ held' = [held EXCEPT ![t] = Without(@, Head(todo[t]).lock)]
    /\ todo' = [todo EXCEPT ![t] = Tail(@)]
    /\ UNCHANGED LockRest

NextLocks == \E t \in LockThreads : Call(t) \/ Lock(t) \/ Drop(t) \/ CondvarWait(t)

SpecLocks == Init /\ [][NextLocks]_vars

\* ------------------------------------------------------------ properties
\* vocabulary of the properties
Pushed(id) == \E i \in 1..Len(enqOrder) : enqOrder[i] = id
PushIndex(id) == CHOOSE i \in 1..Len(enqOrder) : enqOrder[i] = id
Rank(b) == CASE b = "High" -> 3 [] b = "Normal" -> 2 [] OTHER -> 1
InLog(id) == \E i \in 1..Len(log) : log[i].id = id
InAnyQueue(id) == \E p \in Pools : id \in InQueue(p)
TerminalOfTask == {"Done"} \cup ErrorStatuses

\* C1: every job for which best_effort::execute returned Offloaded reaches a
\* terminal status (Done or Error) when the closure returns: once the call
\* has returned Offloaded and the computation thread has finished with the
\* closure's Ok or Err, the job is Done or Error.
OffloadedJobTerminal ==
    \A r \in Requests :
        (bout[r] = "Offloaded" /\ tpc[r] = "exit" /\ tres[r] \in {"Ok", "Err"})
            => status[bjob[r]] \in TerminalOfTask

\* C2: if cancel(id) returned true, the job's task is never executed, its
\* status stays Canceled and no result is written for it.
CanceledNeverRuns ==
    \A id \in cancelOk :
        status[id] = "Canceled" /\ result[id] = None /\ executed[id] = 0

\* C3: status moves only along Queued -> {Running, Canceled}, Running ->
\* {Done, Error, Timeout}: a terminal status never changes and no job goes
\* from Running back to Queued.
DagStep(id) ==
    \/ status'[id] = status[id]
    \/ status[id] = NoJob /\ status'[id] \in {"Queued", "Running"}
    \/ status[id] = "Queued" /\ status'[id] \in {"Running", "Canceled"}
    \/ status[id] = "Running" /\ status'[id] \in TerminalOfTask \cup {"Timeout"}

StatusFollowsDag == [][\A id \in JobIds : DagStep(id)]_vars

\* C4: every job accepted by submit eventually has a terminal status, in
\* every band, with one worker that is scheduled fairly and tasks that
\* return.
AcceptedJobTerminates ==
    \A id \in JobIds : Pushed(id) ~> (status[id] \in Terminal)

\* C5 as stated: every call of best_effort::execute returns exactly one of
\* Completed, Offloaded, HandlerFailed, QueueFull, Internal; Completed or
\* HandlerFailed only for an Ok or Err received before the deadline,
\* Offloaded or QueueFull only after the deadline expired, Internal only
\* when the channel disconnected without a value.
OutcomeCommon(r) ==
    /\ bout[r] \in {"none", "Completed", "Offloaded", "HandlerFailed", "QueueFull", "Internal"}
    /\ (bpc[r] = "returned") <=> (bout[r] # "none")
    /\ bpc[r] \notin {"idle", "returned"} => ENABLED Foreground(r, BeRun)
    /\ bout[r] = "Completed" => brecv[r] = "Ok"
    /\ bout[r] = "HandlerFailed" => brecv[r] = "Err"
    /\ bout[r] = "Offloaded" => (brecv[r] = "Timeout" /\ breg[r] = "Ok")
    /\ bout[r] = "QueueFull" => (brecv[r] = "Timeout" /\ breg[r] = "QueueFull")

InternalOnlyOnDisconnect ==
    \A r \in Requests :
        /\ OutcomeCommon(r)
        /\ bout[r] = "Internal" => brecv[r] = "Disconnected"

\* C5 amended: as above, but Internal is returned when the channel
\* disconnected without a value, or when the deadline expired and
\* register_inflight failed with an error other than QueueFull.
ExactlyOneOutcome ==
    \A r \in Requests :
        /\ OutcomeCommon(r)
        /\ bout[r] = "Internal" =>
             \/ brecv[r] = "Disconnected"
             \/ brecv[r] = "Timeout" /\ breg[r] = "Unknown"

InternalAfterDeadline ==
    \E r \in Requests :
        bout[r] = "Internal" /\ brecv[r] = "Timeout" /\ breg[r] = "Unknown"

\* C6: strict priority: a dequeue never returns a job while a job of a
\* higher band that was in the queue before the dequeue's scan of the bands
\* began is still waiting.
StrictPriority ==
    \A w \in Workers :
        wpc[w] = "check" =>
            \A h \in InQueue(WorkerPool(w)) :
                Rank(priority[h]) > Rank(priority[wjob[w]]) => PushIndex(h) > scanStart[w]

HighOvertakesNormal ==
    \E w \in Workers :
        /\ wpc[w] = "check"
        /\ priority[wjob[w]] = "High"
        /\ \E n \in InBand(WorkerPool(w), "Normal") :
             PushIndex(n) < PushIndex(wjob[w]) /\ PushIndex(wjob[w]) <= scanStart[w]

\* C7: FIFO within a band: of two jobs of the same pool and priority, the
\* one pushed first is dequeued first.
FifoWithinBand ==
    \A i, j \in 1..Len(enqOrder) :
        (/\ i < j
         /\ priority[enqOrder[i]] = priority[enqOrder[j]]
         /\ TargetPool(task[enqOrder[i]]) = TargetPool(task[enqOrder[j]])
         /\ ~InAnyQueue(enqOrder[j]))
            => ~InAnyQueue(enqOrder[i])

FirstPushedFirstPopped ==
    \E w \in Workers :
        /\ wpc[w] = "check"
        /\ \E b \in InBand(WorkerPool(w), priority[wjob[w]]) : PushIndex(wjob[w]) < PushIndex(b)

\* C8: admission: a submit called while the total length of the target
\* queue is >= JOB_QUEUE_MAX returns QueueFull and constructs no job.
AdmissionControl ==
    [][\A s \in Submitters :
         /\ (spc[s] = "idle" /\ spc'[s] = "insert")
               => total_len(TargetPool(sreq'[s][1])) < RaceRun.queue_max
         /\ (spc[s] = "idle" /\ total_len("cpu") >= RaceRun.queue_max)
               => (spc'[s] = "idle" /\ sres'[s] \in {sres[s], "QueueFull"})]_vars

RejectedWhenFull ==
    \E s \in Submitters :
        /\ spc[s] = "idle" /\ sres[s] = "QueueFull" /\ sjob[s] = 0
        /\ total_len("cpu") = RaceRun.queue_max
        /\ Len(enqOrder) = RaceRun.queue_max

\* C9: a submit that returns QueueFull leaves no footprint: a rejection up
\* front changes neither the registry, the log nor any band, and after a
\* rejection at the enqueue the job is in none of them.
RolledBack(s) ==
    (spc[s] = "idle" /\ sres[s] = "QueueFull" /\ sjob[s] # 0)
        => (sjob[s] \notin jobs /\ ~InLog(sjob[s]) /\ ~InAnyQueue(sjob[s]))

RejectedUpFront(s) ==
    /\ spc[s] = "idle" /\ spc'[s] = "idle"
    /\ sres'[s] = "QueueFull" /\ sjob'[s] = 0
    /\ <<sres[s], sjob[s]>> # <<sres'[s], sjob'[s]>>

QueueFullNoFootprint ==
    /\ [](\A s \in Submitters : RolledBack(s))
    /\ [][\A s \in Submitters : RejectedUpFront(s) => UNCHANGED <<jobs, log, queue>>]_vars

RejectedAtEnqueue ==
    \E s \in Submitters : spc[s] = "idle" /\ sres[s] = "QueueFull" /\ sjob[s] # 0

\* C10: a job whose status is Done has a result, also for a query that reads
\* the status and then the result while the executor writes them.
DoneHasResult ==
    /\ \A id \in JobIds : status[id] = "Done" => result[id] # None
    /\ ~qmissing

DoneObserved ==
    \E id \in JobIds : status[id] = "Done" /\ qjob = id /\ result[id] # None

\* C11: once submit or register_inflight has returned an id, the job stays
\* in the registry and status(id) is defined in every later state.
Returned(id) ==
    \/ \E s \in Submitters : sres[s] = "Ok" /\ sjob[s] = id
    \/ Pushed(id)
    \/ \E r \in Requests : bjob[r] = id /\ bpc[r] \in {"store_id", "drop_rx", "returned"}

AcceptedStaysRegistered ==
    \A id \in JobIds : Returned(id) => (id \in jobs /\ status[id] # NoJob)

AcceptedAndRolledBack ==
    /\ \E s \in Submitters : sres[s] = "QueueFull" /\ sjob[s] # 0 /\ sjob[s] \notin jobs
    /\ \E id \in JobIds : Pushed(id) /\ status[id] \in Terminal /\ id \in jobs

\* C12: cancel returns false and changes nothing when the id is missing or
\* the job is Running, Done, Error, Canceled or Timeout; it returns true only
\* for a Queued job.
CancelRefusedFrame ==
    [][/\ crefused' # crefused =>
            /\ UNCHANGED <<jobVars, queue, log>>
            /\ crefused' \in JobIds
            /\ (crefused' \notin jobs \/ status[crefused'] # "Queued")
       /\ \A id \in JobIds :
            (id \in cancelOk' /\ id \notin cancelOk) => (id \in jobs /\ status[id] = "Queued")
       /\ \A id \in JobIds :
            (id \in jobs /\ status[id] \in {"Running"} \cup Terminal)
                => ~ENABLED cancel(id)]_vars

RunningCancelRefused ==
    \E w \in Workers :
        /\ wpc[w] = "task"
        /\ crefused = wjob[w]
        /\ status[wjob[w]] = "Running"

\* the line of a job in a log
LineOf(l, id) == l[CHOOSE i \in 1..Len(l) : l[i].id = id]
HasLine(l, id) == \E i \in 1..Len(l) : l[i].id = id

\* C13: recovery is a round trip: a job persisted with any status is
\* reported by the restarted manager with that same status, except that
\* Running comes back as Queued; the message of an Error is preserved.
\* Checked where load_persistent_jobs inserts the record in the registry.
PersistedStatus(st) == IF st = "Running" THEN "Queued" ELSE st
RecoveryRoundTrip ==
    [][\A id \in JobIds :
         (lpc = "insert" /\ id \notin jobs /\ id \in jobs' /\ HasLine(bootlog, id))
            => StatusDebug(status'[id]) = PersistedStatus(LineOf(bootlog, id).status)]_vars

\* C14: every status change is written to the log: once a job has been
\* given a terminal status by cancel or by the worker that ran it (and
\* the worker has finished with it), the log's record of the job carries
\* that status.
HeldByWorker(id) == \E w \in Workers : wjob[w] = id
StatusChangesLogged ==
    \A id \in jobs :
        (status[id] \in Terminal /\ ~HeldByWorker(id))
            => (HasLine(log, id) /\ LineOf(log, id).status = StatusDebug(status[id]))

\* C15: persistence is idempotent per job: the log never holds two lines
\* with the same id, saving the same snapshot twice leaves the log that
\* saving it once leaves, and a save of one job leaves the lines of every
\* other job as they were, in their order.
OneLinePerId == \A i, j \in 1..Len(log) : log[i].id = log[j].id => i = j
SaveTwiceIsSaveOnce ==
    \A id \in jobs : save_job_state(save_job_state(log, id), id) = save_job_state(log, id)
OtherLinesKept ==
    log' # log =>
        \E id \in JobIds :
            /\ SelectSeq(log', LAMBDA r : r.id # id) = SelectSeq(log, LAMBDA r : r.id # id)
            /\ Len(SelectSeq(log', LAMBDA r : r.id = id)) = 1
IdempotentPersistence ==
    /\ [](OneLinePerId /\ SaveTwiceIsSaveOnce)
    /\ [][OtherLinesKept]_vars
\* a job saved twice (Queued, then Done) beside another job's line
SavedAgainBesideOther ==
    /\ Len(log) = 2
    /\ \E id \in jobs : HasLine(log, id) /\ LineOf(log, id).status = "Done" /\ log[1].id # id

\* C16: a crash at any step of the write procedure leaves the file at the
\* persistence path holding either the complete previous log or the
\* complete new log: while a save is under way the path still holds the
\* log the save started from, and the path only ever changes to the whole
\* new log of the save under way.
PathOldOrNew == fwriter.who # "none" => log = fwriter.old
CrashSafeWrite ==
    /\ [](crashed => PathOldOrNew)
    /\ [][log' # log => (fwriter.who # "none" /\ log = fwriter.old /\ log' = fwriter.lines)]_vars
\* the process died with the temporary file half written
CrashedMidWrite ==
    /\ crashed
    /\ fwriter.at = "write"
    /\ Len(tmpfile) >= 1
    /\ Len(tmpfile) < Len(fwriter.lines)
    /\ log = fwriter.old
    /\ Len(log) >= 1

\* the status of a job's line in the log the process was started on
PersistedAs(id) == LineOf(bootlog, id).status

\* C17: when load_persistent_jobs has finished, every record of the log is
\* in the registry, and a record has been enqueued if and only if its
\* persisted status is Queued or Running: a job persisted as Done, Error,
\* Canceled or Timeout is not enqueued again.
RequeuedIffPending ==
    lpc = "done" =>
        \A id \in JobIds :
            HasLine(bootlog, id) =>
                /\ id \in jobs
                /\ Pushed(id) <=> PersistedAs(id) \in {"Queued", "Running"}

\* C18: a job persisted as Queued or Running before the process died is,
\* after the restart, in the registry with status Queued when it is
\* inserted, and later reaches a terminal status.
PendingJobRecovered ==
    \A id \in JobIds :
        [](( /\ lpc \in {"insert", "enqueue", "done"}
             /\ HasLine(bootlog, id)
             /\ PersistedAs(id) \in {"Queued", "Running"} )
           => <>(id \in jobs /\ status[id] \in Terminal))

\* C19: a best-effort request that ends inline (Completed or
\* HandlerFailed) creates no job: it never calls register_inflight, holds
\* no job id, and every step of the request, of its calling thread or of
\* its spawned thread, leaves the registry, the log and the queues as they
\* were.
Inline == {"Completed", "HandlerFailed"}
RequestState(r) == <<bpc[r], tpc[r], breq[r], brecv[r], breg[r], bjob[r], bout[r], tres[r],
                     chan[r], rx[r], tx[r], job_id_slot[r]>>
InlineLeavesNoJob ==
    /\ [](\A r \in Requests :
            bout[r] \in Inline => (breg[r] = "none" /\ bjob[r] = 0 /\ job_id_slot[r] = None))
    /\ [][\A r \in Requests :
            (RequestState(r)' # RequestState(r) /\ breg'[r] = "none")
                => UNCHANGED <<jobVars, queue, log>>]_vars
\* the request returned inline and its thread has ended, beside a
\* submitted job
InlineReturned ==
    \E r \in Requests :
        /\ bout[r] \in Inline
        /\ bpc[r] = "returned"
        /\ tpc[r] = "exit"
        /\ jobs # {}

\* C20: an offloaded job is in the registry from the moment execute
\* returns Offloaded, and is never in a queue band: no step of the request
\* changes a queue, the job is never pushed, and no queue worker holds it.
OffloadedNeverQueued ==
    /\ [](\A r \in Requests :
            /\ bout[r] = "Offloaded" => (bjob[r] # 0 /\ bjob[r] \in jobs)
            /\ bjob[r] # 0 =>
                 /\ ~InAnyQueue(bjob[r])
                 /\ ~Pushed(bjob[r])
                 /\ \A w \in Workers : wjob[w] # bjob[r])
    /\ [][\A r \in Requests :
            RequestState(r)' # RequestState(r)
                => \A p \in Pools : total_len(p)' = total_len(p) /\ queue'[p] = queue[p]]_vars
\* the request returned Offloaded and the queue worker of the job's pool
\* has dequeued a submitted job and is running it
OffloadedBesideQueue ==
    \E r \in Requests :
        /\ bout[r] = "Offloaded"
        /\ status[bjob[r]] = "Running"
        /\ \E w \in Workers :
              wpc[w] = "task" /\ wjob[w] # bjob[r] /\ WorkerPool(w) = TargetPool(task[bjob[r]])

\* C21: register_inflight returns QueueFull, and creates no registry entry,
\* whenever the queue length of the target pool plus its count of
\* registered in-flight jobs has reached queue_max, and execute returns
\* that QueueFull; right after a registration that succeeded the sum is at
\* most queue_max.
Load(p) == total_len(p) + InflightCount(p)
RegisterAdmission ==
    [][\A r \in Requests :
         (bpc[r] = "register" /\ bpc'[r] # "register") =>
            LET p == TargetPool(breq[r][1]) IN
            /\ Load(p) >= BeRun.queue_max =>
                  /\ breg'[r] = "QueueFull"
                  /\ bout'[r] = "QueueFull"
                  /\ bpc'[r] = "returned"
                  /\ UNCHANGED <<jobVars, queue, log, inflight>>
            /\ breg'[r] = "Ok" => Load(p)' <= BeRun.queue_max]_vars
\* C21 as stated: queue length plus in-flight count never exceeds queue_max
LoadWithinQueueMax == \A p \in Pools : Load(p) <= BeRun.queue_max
\* a request was refused with QueueFull because of an in-flight job alone
RefusedByInflight ==
    \E r \in Requests :
        /\ bout[r] = "QueueFull"
        /\ breg[r] = "QueueFull"
        /\ total_len(TargetPool(breq[r][1])) = 0
        /\ InflightCount(TargetPool(breq[r][1])) = BeRun.queue_max

\* C22: for an Offloaded job the recorded outcome is the closure's
\* outcome: once the computation thread has ended, Ok(json) has left the
\* job Done with result json, and Err(msg) has left it Error(msg) with no
\* result.
OffloadedOutcomeRecorded ==
    \A r \in Requests :
        (bout[r] = "Offloaded" /\ tpc[r] = "exit") =>
            /\ tres[r] = "Ok" => (status[bjob[r]] = "Done" /\ result[bjob[r]] = Some("json"))
            /\ tres[r] = "Err" => (status[bjob[r]] = Error("failed") /\ result[bjob[r]] = None)

\* C23: the reported number of active workers of a pool is at most its
\* total worker count (and never below zero), for the job pools and for
\* the per-endpoint pool.
total_workers(p) == Cardinality({w \in Workers : WorkerPool(w) = p})
Computing == {r \in Requests : tpc[r] = "exec"}
RouteConcurrencyCap == Cardinality(Computing) <= PoolSize

\* C25: the Retry-After header of a 503 is retry_after_ms / 1000 rounded up,
\* and at least 1, for every u64 retry_after_ms, the values within 999 of
\* the maximum included; the handler always answers.
ceil_1000(x) == IF x[1] = 0 THEN div_1000(x) ELSE plus(div_1000(x), 1)
RetryAfterIsCeiling ==
    /\ response # "panic"
    /\ response = "503" => retry_after_secs = max_1(ceil_1000(retry_after_ms))

\* C26: a task name outside the classification table is accepted by submit
\* (the call returns Ok and the job is registered), and once executed its
\* job has no result and ends with status Error("Unknown task '<name>'").
ClassificationTable == CpuTasks \cup IoTasks
UnknownTaskEndsInError ==
    /\ \A s \in Submitters :
          (spc[s] = "idle" /\ sjob[s] # 0 /\ task[sjob[s]] \notin ClassificationTable)
              => (sres[s] = "Ok" /\ sjob[s] \in jobs)
    /\ \A id \in jobs :
          (task[id] \notin ClassificationTable /\ executed[id] > 0) =>
              /\ result[id] = None
              /\ status[id] \in {"Running", Error(UnknownTask(task[id]))}
              /\ ~HeldByWorker(id) => status[id] = Error(UnknownTask(task[id]))
\* a job named "nosuch" was accepted, run and released by its worker
UnknownTaskExecuted ==
    \E s \in Submitters :
        /\ sres[s] = "Ok"
        /\ spc[s] = "idle"
        /\ task[sjob[s]] = "nosuch"
        /\ executed[sjob[s]] = 1
        /\ ~HeldByWorker(sjob[s])
        /\ status[sjob[s]] = "Error:Unknown task 'nosuch'"

\* C27: the status a worker gives the job it ran is a function of the task
\* outcome and of expiry: Ok gives Done, or Timeout when the job is expired;
\* Err(msg) gives Error(msg); a panic gives Error("panic").
TerminalStatusFunction ==
    [][\A w \in Workers :
         (wjob[w] # 0 /\ status[wjob[w]] = "Running" /\ status'[wjob[w]] # "Running") =>
             status'[wjob[w]] =
                 CASE wout[w] = "Ok" -> IF wexp'[w] THEN "Timeout" ELSE "Done"
                   [] wout[w] = "Err" -> Error("failed")
                   [] wout[w] = "Panic" -> Error("panic")
                   [] OTHER -> Error(UnknownTask(task[wjob[w]]))]_vars
\* one job ended by a panic, and a worker has just recorded Timeout for a
\* task that returned Ok on an expired job
TimeoutAndPanicRecorded ==
    /\ \E id \in jobs : status[id] = Error("panic") /\ ~HeldByWorker(id)
    /\ \E w \in Workers : wpc[w] = "save" /\ wout[w] = "Ok" /\ wexp[w] /\ status[wjob[w]] = "Timeout"

\* C28: a job has a result if and only if its status is Done; stated for
\* the jobs no worker is holding, whose status and result are not being
\* written.
ResultIffDone ==
    \A id \in jobs :
        ~HeldByWorker(id) => (result[id] # None <=> status[id] = "Done")

\* C29: for a job whose status is stable (no worker is holding it),
\* finished_at is set if and only if the status is Done, Error or Timeout.
Ended == {"Done", "Timeout"} \cup ErrorStatuses
FinishedIffEnded ==
    \A id \in jobs :
        ~HeldByWorker(id) => (finished_at[id] <=> status[id] \in Ended)

\* C30: a failure to write the persistence log aborts nothing: the submit
\* call still returns Ok(id) with the job registered and pushed on its
\* queue, and the worker still leaves the job with its terminal status in
\* memory.
SaveFailureNeverAborts ==
    /\ \A s \in Submitters :
          (spc[s] = "idle" /\ sjob[s] # 0) =>
              (sres[s] = "Ok" /\ sjob[s] \in jobs /\ Pushed(sjob[s]))
    /\ \A s \in Submitters : spc[s] \in {"idle", "insert", "save", "enqueue"}
    /\ \A w \in Workers : wpc[w] = "after" => status[wjob[w]] \in Terminal
    /\ \A id \in jobs : (executed[id] > 0 /\ ~HeldByWorker(id)) => status[id] \in Terminal
\* no save of the job ever reached the file, and yet its submit returned Ok
\* and it is Done in memory
DoneWithoutLog ==
    \E s \in Submitters :
        /\ spc[s] = "idle"
        /\ sres[s] = "Ok"
        /\ status[sjob[s]] = "Done"
        /\ ~HeldByWorker(sjob[s])
        /\ ~HasLine(log, sjob[s])

\* C31: once the owner has dropped its pool handle, one Shutdown message
\* per worker has been sent: each is in the channel or was consumed by a
\* worker that exited.
ShutdownsSent ==
    Cardinality({i \in 1..Len(pchan) : pchan[i] = "Shutdown"})
        + Cardinality({pw \in PoolWorkers : ppc[pw] = "exit"})
DropShutsDown == ~pstrong.owner => ShutdownsSent = PoolSize

\* C32: no lost wakeup: a worker that waits in dequeue while some band of
\* its queue holds a job leaves the wait.
NoLostWakeup ==
    \A w \in Workers :
        (wpc[w] = "waiting" /\ total_len(WorkerPool(w)) > 0) ~> (wpc[w] # "waiting")

\* the locks of a kind a thread holds
HeldOf(t, kind) == {i \in 1..Len(held[t]) : held[t][i] \in kind}

\* a thread blocked in Mutex::lock
Blocked(t) ==
    /\ todo[t] # <<>>
    /\ Head(todo[t]).op = "lock"
    /\ Holder(Head(todo[t]).lock) # {}

\* no set of threads in which each waits for a mutex held by another of the set
NoMutexDeadlock ==
    \A S \in SUBSET LockThreads \ {{}} :
        ~ \A t \in S : Blocked(t) /\ Holder(Head(todo[t]).lock) \subseteq S

\* C33: a job-field lock is taken with nothing held or under the registry or
\* the persistence lock alone, no thread holds two job-field locks or two
\* queue-band locks, and no set of threads is deadlocked on these mutexes.
LockHierarchy ==
    /\ \A t \in LockThreads :
        /\ Cardinality(HeldOf(t, JobFields)) <= 1
        /\ Cardinality(HeldOf(t, BandLocks)) <= 1
        /\ \A i \in HeldOf(t, JobFields) :
               /\ i = Len(held[t])
               /\ i <= 2
               /\ i = 2 => held[t][1] \in {Registry, "FILE_LOCK"}
    /\ NoMutexDeadlock

\* a save_job_state call for this job has returned
Saved(id) ==
    /\ id \in jobs
    /\ ~ \E s \in Submitters : sjob[s] = id /\ spc[s] = "save"

\* C34: concurrent writers never lose a record: the file operations of two
\* save_job_state calls do not interleave, and the log holds exactly one
\* record for every job that has been saved.
NoRecordLost ==
    /\ [](\A id \in JobIds :
            Saved(id) => Cardinality({i \in 1..Len(log) : log[i].id = id}) = 1)
    /\ [][fwriter.who # "none" => fwriter'.who \in {fwriter.who, "none"}]_vars

\* a writer is kept out by another writer's save, with a record in the log
WritersContend ==
    \E s \in Submitters :
        /\ spc[s] = "save"
        /\ fwriter.who \notin {"none", s}
        /\ \E id \in JobIds \ {sjob[s]} : Saved(id)

\* C35: the job id is in the id slot before the receiver is dropped: when
\* the thread's send has failed after a successful register_inflight, the
\* slot it reads holds the id of the registered job.
IdStoredBeforeDrop ==
    \A r \in Requests :
        (tpc[r] = "read_id" /\ breg[r] = "Ok") => job_id_slot[r] = Some(bjob[r])

\* the send of the thread of an offloaded request has failed
SendFailedAfterRegister ==
    \E r \in Requests : tpc[r] = "read_id" /\ breg[r] = "Ok" /\ bjob[r] \in inflight

Places(id) ==
    {<<p, b, i>> \in Pools \X Bands \X (1..MaxJobs) :
        i <= Len(queue[p][b]) /\ queue[p][b][i] = id}

\* C37: within one process lifetime a job is executed at most once: it is
\* in at most one place of one band, a job held by a worker is in no band
\* and is held by no other worker, and its task has run at most once.
ExecutedAtMostOnce ==
    /\ \A id \in JobIds : Cardinality(Places(id)) <= 1 /\ executed[id] <= 1
    /\ \A w \in Workers : wjob[w] # 0 =>
          /\ Places(wjob[w]) = {}
          /\ \A v \in Workers \ {w} : wjob[v] # wjob[w]

\* both workers of the pool hold a job and one of the tasks has run
TwoWorkersTwoJobs ==
    /\ wjob["cpu-0"] # 0
    /\ wjob["cpu-1"] # 0
    /\ \E id \in JobIds : executed[id] = 1

\* the records of a job in a log, by kind of status
TerminalInLog(l, id) ==
    \E i \in 1..Len(l) : l[i].id = id /\ l[i].status \notin {"Queued", "Running"}
PendingInLog(l, id) ==
    \E i \in 1..Len(l) : l[i].id = id /\ l[i].status \in {"Queued", "Running"}

\* C38: the persisted status never regresses: once the log holds a terminal
\* status for an id, no later write leaves a Queued or Running record for it.
PersistedNeverRegresses ==
    [][\A id \in JobIds : TerminalInLog(log, id) => ~PendingInLog(log', id)]_vars

\* a record written after a terminal record, which is still in the log
WrittenAfterTerminal ==
    \E i, j \in 1..Len(log) :
        /\ i < j
        /\ log[i].status \notin {"Queued", "Running"}
        /\ log[j].status \in {"Queued", "Running"}

\* C39: the computation thread never blocks after the closure has returned:
\* its send finds the receiver gone or the buffer free, and the thread ends.
ThreadNeverBlocks ==
    /\ [](\A r \in Requests : tpc[r] = "send" => (SendFails(r) \/ has_room(chan[r])))
    /\ \A r \in Requests : (tpc[r] = "send") ~> (tpc[r] = "exit")

\* a thread has ended after a send into the buffer, another after a send
\* that failed and the registration of its result
ThreadsEnded ==
    \E r, q \in Requests :
        /\ tpc[r] = "exit" /\ tres[r] # "Panic" /\ chan[r] # None
        /\ tpc[q] = "exit" /\ breg[q] = "Ok" /\ bjob[q] \notin inflight

\* C40: the counters of a per-endpoint pool are exact after any sequence of
\* closures, panicking ones included: active_workers counts the workers
\* between fetch_add and fetch_sub, a worker's busy flag is set exactly
\* from busy.store(true) to busy.store(false), and every worker is alive.
PoolCountersExact ==
    /\ pactive = Cardinality({pw \in PoolWorkers : ppc[pw] \in {"job", "sub"}})
    /\ \A pw \in PoolWorkers : pbusy[pw] <=> ppc[pw] \in {"add", "job", "sub", "idle"}
    /\ Cardinality({pw \in PoolWorkers : ppc[pw] # "dead"}) = PoolSize
====
